---- MODULE Spec2Model ----
(***************************************************************************)
(* Verification model of the Source-engine world pipeline of               *)
(* noclip.website: the entity input/output event bus (EntitySystem and the *)
(* entity classes) and the per-frame ordering of SourceRenderer.           *)
(*                                                                         *)
(* Time is counted in integer time units.  A door moves along its move     *)
(* direction only, so positions are scalar coordinates on that axis.       *)
(* timeLeftInSeconds = distance / speed is kept exactly as the numerator   *)
(* timeLeftNum over the (fixed) denominator speed; the IEEE results of a   *)
(* division by speed 0 (Infinity, NaN) are kept as timeLeftKind.           *)
(***************************************************************************)
EXTENDS Integers, Sequences, FiniteSets, TLC

\* ---------------------------------------------------------------- bounds
MaxTicks == 3
MaxDeltaTime == 1
MaxEvents == 14

DeltaTimes == 0..MaxDeltaTime
\* camera positions: 0 outside every trigger volume, higher positions deeper
CameraPositions == 0..2

\* ------------------------------------------------------------ vocabulary
\* BaseEntity.targetName is null until a non-empty targetname is given
NullName == "<null>"

OutputNames == {"onmapspawn", "ontrigger", "onstarttouch", "onendtouch",
                "onendtouchall", "onopen", "onclose", "onfullyopen",
                "onfullyclosed", "outvalue", "onhitmin", "onhitmax", "ontimer"}

NoOutputs == [n \in OutputNames |-> <<>>]

EntityOutputAction(targetName, inputName, parameterOverride, delay) ==
    [targetName |-> targetName, inputName |-> inputName,
     parameterOverride |-> parameterOverride, delay |-> delay, timesToFire |-> -1]

\* Number(value) on the value strings that occur in the levels below
Number(s) ==
    CASE s = ""  -> 0
      [] s = "0" -> 0
      [] s = "1" -> 1
      [] s = "2" -> 2
      [] s = "5" -> 5
      [] s = "7" -> 7

Abs(x) == IF x < 0 THEN -x ELSE x

\* ------------------------------------------------------------- variables
VARIABLES
    level,            \* BSPFile.entities: the key/value records of the level
    entities,         \* EntitySystem.entities
    currentTime,      \* EntitySystem.currentTime
    outputQueue,      \* EntitySystem.outputQueue
    pc,               \* position in createEntities / movement
    qi,               \* loop index of processOutputQueue (1-based)
    ei,               \* loop index over entities (1-based)
    ticks,            \* number of movement() calls so far
    globalDeltaTime,  \* renderContext.globalDeltaTime of the frame
    cameraPos,        \* renderContext.currentView.cameraPos of the frame
    evlog,            \* history: one record per event ever enqueued
    stepFires,        \* history: EntityOutput.fire calls of the last step
    stepInputs,       \* history: fireInput calls of the last step
    stepMoves,        \* history: movement() calls of the current tick
    spawnCalls,       \* history: number of spawn() calls per entity
    drainLog          \* history: ids examined by the current drain, ids enqueued after it

esvars == <<level, entities, currentTime, outputQueue, pc, qi, ei, ticks,
            globalDeltaTime, cameraPos, evlog, stepFires, stepInputs,
            stepMoves, spawnCalls, drainLog>>

\* SourceRenderer, one frame at a time
VARIABLES
    renderer,         \* SourceRenderer settings and the loaded BSP renderers
    fpc,              \* position in SourceRenderer.prepareToRender
    fr,               \* loop index over bspRenderers (1-based)
    frames,           \* number of frames started
    view,             \* what the camera of the frame resolves to
    pvsScratch,       \* SourceRenderer.pvsScratch: the set of set bits
    liveSurfaceSet,   \* per BSP renderer: models[0].liveSurfaceSet
    liveLeafSet,      \* per BSP renderer: BSPRenderer.liveLeafSet
    frameLog          \* history: the calls of the current frame, in order

frvars == <<renderer, fpc, fr, frames, view, pvsScratch, liveSurfaceSet,
            liveLeafSet, frameLog>>

\* Command_Shape.draw of the J3D model renderer
VARIABLES
    posMtxVisibility, \* the module-level posMtxVisibility array, one entry per slot
    u_PosMtx, \* per Command_Shape: packetParams.u_PosMtx
    drawCallCount, \* state.renderStatisticsTracker.drawCallCount
    shapeDraws, \* number of draw() calls so far
    shapeLog \* history: the last draw() call and what each packet did

shvars == <<posMtxVisibility, u_PosMtx, drawCallCount, shapeDraws, shapeLog>>

\* BMDModel, the shared asset, and its BMDModelInstance placements
VARIABLES
    bmdModel, \* the BMDModel: realized, and whether its GPU resources exist
    modelInstances, \* per placement: "none", "live" or "destroyed", and BMDModelInstance.visible
    teardown, \* history: BMDModel.destroy was called by the owner of the asset
    lastRender \* history: the last BMDModelInstance.render call

bmvars == <<bmdModel, modelInstances, teardown, lastRender>>

\* BSPModelRenderer.gatherSurfaces over the BSP tree, with the caller's sets
VARIABLES
    outSurfaceSet, \* the caller's Set<number> of surface indices
    outLeafSet, \* the caller's Set<number> of leaf numbers
    gatherLog \* history: the last gatherSurfaces call, its arguments and the sets before it

gsvars == <<outSurfaceSet, outLeafSet, gatherLog>>

\* BSPModelRenderer.bindMaterials and the material requests in flight
VARIABLES
    surfaceTexNames, \* surfaces[i].surface.texName
    bindPc, \* where bindMaterials is: "new", "requested", "waiting" or "bound"
    modelEntity, \* BSPModelRenderer.entity: 0 is null
    materialRequests, \* the texture names createMaterialInstance was called with, in call order
    resolved, \* per request: the [texName, materialInstance] it resolved with, or <<>>
    resolveOrder, \* history: the requests in the order they resolved
    surfaceMaterial \* surfaces[i].materialInstance: <<>> is null

mbvars == <<surfaceTexNames, bindPc, modelEntity, materialRequests, resolved, resolveOrder, surfaceMaterial>>

\* BSPSurfaceRenderer.prepareToRender in the frames around material binding
VARIABLES
    surfaceVisible, \* surfaces[i].visible
    materialVisible, \* per texture name: isMaterialVisible of the instance created for it
    surfaceFrame, \* history: the last frame's prepareToRender calls, their arguments and outcomes
    skippedUnbound \* history: the surfaces some frame skipped because no material was bound

sfvars == <<surfaceVisible, materialVisible, surfaceFrame, skippedUnbound>>

\* SourceRenderer.render: the render graph's passes and the submitted render insts
VARIABLES
    rpc, \* where render is: "idle", "execute" or "reset"
    passes, \* the passes pushed on the graph builder, in push order
    passIndex, \* the next pass the render graph executes
    renderInsts, \* renderInstManager's submitted render insts
    passLog \* history: the passes executed in this frame and what each drew

rpvars == <<rpc, passes, passIndex, renderInsts, passLog>>

\* MaterialInstance.fillMaterialInstanceState and the sources it reads
VARIABLES
    hasModelInstance, \* MaterialInstance.modelInstance !== null
    trk1Animators, \* per color register: whether a TRK1 animator is bound
    ttk1Animators, \* per texture matrix slot: whether a TTK1 animator is bound
    colorOverrides, \* modelInstance.colorOverrides: <<>> is undefined
    alphaOverrides, \* modelInstance.alphaOverrides, undefined read as false
    materialInstanceState, \* the MaterialInstanceState the fill writes: colors and texMatrices
    fillLog \* history: the sources as they were at the last fill

mivars == <<hasModelInstance, trk1Animators, ttk1Animators, colorOverrides, alphaOverrides, materialInstanceState, fillLog>>

\* BMDModelInstance.updateMatrixArray: the joint matrices and the matrix array of a model instance
VARIABLES
    ank1Animator, \* the bound ANK1 animator: <<>> is null, else the joints it has a track for
    jointMatrices, \* BMDModelInstance.jointMatrices, a matrix as the sequence of its factors
    jointVisibility, \* BMDModelInstance.jointVisibility
    matrixArray, \* shapeInstanceState.matrixArray, one matrix per DRW1 joint
    instMatrixVisibility, \* shapeInstanceState.matrixVisibility of the instance, one classification per DRW1 joint
    jointLog \* history: the animator and the frustum results of the last walk

jhvars == <<ank1Animator, jointMatrices, jointVisibility, matrixArray, instMatrixVisibility, jointLog>>

\* BaseEntity.spawn and updateModelMatrix: the parent links of the entities
VARIABLES
    parentCfg, \* per entity: targetname, parentname and whether it has a model
    parentEntity, \* BaseEntity.parentEntity per entity, 0 is null
    entityModelMatrix, \* the model matrix of each entity, a matrix as the sequence of its factors
    callStack, \* the updateModelMatrix calls in progress, innermost last
    callRet, \* the value the last updateModelMatrix call returned
    ppc, \* where createEntities is in its spawn loop
    spawnNext \* the entity whose spawn() is next

pevars == <<parentCfg, parentEntity, entityModelMatrix, callStack, callRet, ppc, spawnNext>>

\* the variables of the units that are not part of the Source-engine world
unitvars == <<shvars, bmvars, gsvars, mbvars, sfvars, rpvars, mivars, jhvars, pevars>>

\* per unit, the variables of the other units
shothers == <<bmvars, gsvars, mbvars, sfvars, rpvars, mivars, jhvars, pevars>>
bmothers == <<shvars, gsvars, mbvars, sfvars, rpvars, mivars, jhvars, pevars>>
gsothers == <<shvars, bmvars, mbvars, sfvars, rpvars, mivars, jhvars, pevars>>
mbothers == <<shvars, bmvars, gsvars, sfvars, rpvars, mivars, jhvars, pevars>>
sfothers == <<shvars, bmvars, gsvars, mbvars, rpvars, mivars, jhvars, pevars>>
rpothers == <<shvars, bmvars, gsvars, mbvars, sfvars, mivars, jhvars, pevars>>
miothers == <<shvars, bmvars, gsvars, mbvars, sfvars, rpvars, jhvars, pevars>>
jhothers == <<shvars, bmvars, gsvars, mbvars, sfvars, rpvars, mivars, pevars>>
peothers == <<shvars, bmvars, gsvars, mbvars, sfvars, rpvars, mivars, jhvars>>

vars == <<esvars, frvars, unitvars>>


\* ------------------------------------------------- the world of a handler
\* The handlers below are functions on the record w: the EntitySystem fields
\* (entities, outputQueue, currentTime) and the history they extend.
World ==
    [entities |-> entities, outputQueue |-> outputQueue, currentTime |-> currentTime,
     evlog |-> evlog, stepFires |-> <<>>, stepInputs |-> <<>>, curFired |-> <<>>]

\* ------------------------------------------------------------ EntityOutput
\* queueEntityOutputAction that forgets the delay of the action
queueEntityOutputAction_NoDelay(w, action, value) ==
    LET v == IF action.parameterOverride # "" THEN action.parameterOverride ELSE value
        triggerTime == w.currentTime
        id == Len(w.evlog) + 1
    IN  [w EXCEPT
          !.outputQueue = Append(@, [action |-> action, triggerTime |-> triggerTime,
                                     value |-> v, id |-> id]),
          !.evlog = Append(@, [action |-> action, t |-> w.currentTime,
                               triggerTime |-> triggerTime, value |-> v,
                               ndisp |-> 0, dispTime |-> -1, targets |-> <<>>])]

queueEntityOutputAction(w, action, value) ==
    LET v == IF action.parameterOverride # "" THEN action.parameterOverride ELSE value
        triggerTime == w.currentTime + action.delay
        id == Len(w.evlog) + 1
    IN  [w EXCEPT
          !.outputQueue = Append(@, [action |-> action, triggerTime |-> triggerTime,
                                     value |-> v, id |-> id]),
          !.evlog = Append(@, [action |-> action, t |-> w.currentTime,
                               triggerTime |-> triggerTime, value |-> v,
                               ndisp |-> 0, dispTime |-> -1, targets |-> <<>>])]

RECURSIVE fireFrom(_, _, _, _)
fireFrom(w, actions, value, i) ==
    IF i > Len(actions) THEN w
    ELSE fireFrom(queueEntityOutputAction(w, actions[i], value), actions, value, i + 1)

\* history: the world w1 a fire call on w returned, with the call recorded
FireRecorded(w, w1, e, name, value) ==
    [w1 EXCEPT
      !.curFired = Append(@, name),
      !.stepFires = Append(@, [ent |-> e, output |-> name,
                               actions |-> w.entities[e].outputs[name],
                               value |-> value, time |-> w.currentTime,
                               queueBefore |-> w.outputQueue,
                               queueAfter |-> w1.outputQueue,
                               targetsBefore |-> [k \in 1..Len(w.evlog) |-> w.evlog[k].targets],
                               targetsAfter |-> [k \in 1..Len(w.evlog) |-> w1.evlog[k].targets],
                               entitiesBefore |-> w.entities,
                               entitiesAfter |-> w1.entities])]

\* EntityOutput.fire of output `name` of entity e; value defaults to ''
EntityOutput_fire(w, e, name, value) ==
    FireRecorded(w, fireFrom(w, w.entities[e].outputs[name], value, 1), e, name, value)

\* -------------------------------------------------------------- BaseEntity
ParsedOutputs(b, names) ==
    [n \in OutputNames |-> IF n \in names THEN b.outputs[n] ELSE <<>>]

BaseEntity_new(b) ==
    [classname |-> b.classname,
     targetName |-> IF b.targetname # "" THEN b.targetname ELSE NullName,
     alive |-> TRUE,
     enabled |-> IF b.startdisabled # "" THEN Number(b.startdisabled) = 0 ELSE TRUE,
     hasModel |-> b.model,
     localOrigin |-> b.origin,
     outputs |-> NoOutputs,
     \* BaseToggle
     speed |-> 0, timeLeftNum |-> 0, timeLeftKind |-> "num",
     positionTarget |-> 0, velocityPerSecond |-> 0, velocityIsNaN |-> FALSE,
     positionOpened |-> 0, positionClosed |-> 0,
     \* func_door
     locked |-> FALSE, toggleState |-> "Bottom", extentDot |-> b.extentDot,
     \* math_counter
     min |-> 0, max |-> 0, value |-> 0, minEdgeState |-> FALSE, maxEdgeState |-> FALSE,
     \* trigger_multiple
     isPlayerTouching |-> FALSE, volume |-> b.volume,
     \* history
     g_openAccepted |-> FALSE, g_openFrom |-> "", g_arrived |-> FALSE, g_elapsed |-> 0,
     g_fullyOpenFires |-> 0, g_fullyOpenElapsed |-> -1, g_hitMax |-> FALSE]

BaseToggle_new(b) ==
    [BaseEntity_new(b) EXCEPT !.speed = b.speed]

func_door_new(b) ==
    [BaseToggle_new(b) EXCEPT
       !.outputs = ParsedOutputs(b, {"onclose", "onopen", "onfullyclosed", "onfullyopen"}),
       !.toggleState = IF b.spawnpos = 1 THEN "Top" ELSE "Bottom"]

logic_auto_new(b) ==
    [BaseEntity_new(b) EXCEPT !.outputs = ParsedOutputs(b, {"onmapspawn"})]

math_counter_new(b) ==
    [BaseEntity_new(b) EXCEPT
       !.outputs = ParsedOutputs(b, {"outvalue", "onhitmin", "onhitmax"}),
       !.value = b.startvalue, !.min = b.min, !.max = b.max]

logic_relay_new(b) ==
    [BaseEntity_new(b) EXCEPT !.outputs = ParsedOutputs(b, {"ontrigger"})]

trigger_multiple_new(b) ==
    [BaseEntity_new(b) EXCEPT
       !.outputs = ParsedOutputs(b, {"ontrigger", "onstarttouch", "onendtouch", "onendtouchall"})]

\* the inputs registered by the constructors (BaseEntity.inputs keys)
RegisteredInputs(classname) ==
    {"enable", "disable"} \cup
    CASE classname = "func_door"    -> {"close", "open", "toggle"}
      [] classname = "math_counter" -> {"add", "subtract"}
      [] classname = "logic_relay"  -> {"trigger"}
      [] OTHER -> {}

input_enable(w, i) == [w EXCEPT !.entities[i].enabled = TRUE]

input_disable(w, i) == [w EXCEPT !.entities[i].enabled = FALSE]

remove(w, i) == [w EXCEPT !.entities[i].alive = FALSE]

\* ------------------------------------------------- BaseToggle / func_door
hitTop(w, i) ==
    LET w1 == [w EXCEPT !.entities[i].g_fullyOpenFires = @ + 1,
                        !.entities[i].g_fullyOpenElapsed = w.entities[i].g_elapsed]
    IN  EntityOutput_fire(w1, i, "onfullyopen", "")

hitBottom(w, i) == EntityOutput_fire(w, i, "onfullyclosed", "")

\* func_door.moveDone (the only BaseToggle subclass of the model)
moveDone(w, i) ==
    LET w1 == [w EXCEPT !.entities[i].g_arrived = TRUE]
    IN  IF w1.entities[i].toggleState = "GoingToTop" THEN hitTop(w1, i)
        ELSE IF w1.entities[i].toggleState = "GoingToBottom" THEN hitBottom(w1, i)
        ELSE w1

\* timeLeftInSeconds > 0.0 and <= 0.0 (both false for NaN)
TimeLeftPositive(e) ==
    \/ e.timeLeftKind = "inf"
    \/ e.timeLeftKind = "num" /\ e.timeLeftNum > 0

TimeLeftNotPositive(e) == e.timeLeftKind = "num" /\ e.timeLeftNum <= 0

Sign(x) == IF x > 0 THEN 1 ELSE IF x < 0 THEN -1 ELSE 0

moveToTargetPos(w, i, positionTarget, speedInSeconds) ==
    LET e == w.entities[i]
        delta == positionTarget - e.localOrigin
        len == Abs(delta)
        \* vec3.length(velocity) / speed: len/0 is Infinity, 0/0 is NaN
        kind == IF speedInSeconds # 0 THEN "num" ELSE IF len > 0 THEN "inf" ELSE "nan"
        w1 == [w EXCEPT !.entities[i].positionTarget = positionTarget,
                        !.entities[i].velocityPerSecond = delta,
                        !.entities[i].velocityIsNaN = FALSE,
                        !.entities[i].timeLeftNum = len,
                        !.entities[i].timeLeftKind = kind,
                        !.entities[i].g_arrived = FALSE]
    IN  IF TimeLeftNotPositive(w1.entities[i]) THEN moveDone(w1, i)
        ELSE \* velocity * (1 / timeLeft): +-speed, 0 for Infinity, NaN for NaN
             [w1 EXCEPT !.entities[i].velocityPerSecond =
                            IF kind = "num" THEN Sign(delta) * speedInSeconds ELSE 0,
                        !.entities[i].velocityIsNaN = (kind = "nan")]

BaseToggle_movement(w, i, deltaTimeInSeconds) ==
    LET e == w.entities[i]
        w0 == [w EXCEPT !.entities[i].g_elapsed =
                           IF e.g_openAccepted /\ ~e.g_arrived THEN @ + deltaTimeInSeconds ELSE @]
    IN  IF TimeLeftPositive(e)
        THEN LET w1 == [w0 EXCEPT
                          !.entities[i].localOrigin = @ + e.velocityPerSecond * deltaTimeInSeconds,
                          !.entities[i].timeLeftNum =
                              IF e.timeLeftKind = "num" THEN @ - deltaTimeInSeconds * e.speed ELSE @]
             IN  IF TimeLeftNotPositive(w1.entities[i])
                 THEN moveDone([w1 EXCEPT !.entities[i].localOrigin = e.positionTarget,
                                          !.entities[i].velocityPerSecond = 0,
                                          !.entities[i].timeLeftNum = 0], i)
                 ELSE w1
        ELSE w0

goToTop(w, i) ==
    LET w1 == [w EXCEPT !.entities[i].toggleState = "GoingToTop"]
        w2 == moveToTargetPos(w1, i, w1.entities[i].positionOpened, w1.entities[i].speed)
    IN  EntityOutput_fire(w2, i, "onopen", "")

goToBottom(w, i) ==
    LET w1 == [w EXCEPT !.entities[i].toggleState = "GoingToBottom",
                        !.entities[i].g_openAccepted = FALSE]
        w2 == moveToTargetPos(w1, i, w1.entities[i].positionClosed, w1.entities[i].speed)
    IN  EntityOutput_fire(w2, i, "onclose", "")

input_close(w, i) ==
    IF w.entities[i].toggleState = "Bottom" THEN w ELSE goToBottom(w, i)

\* input_open that only refuses a door that is already at the top
input_open_WhileOpening(w, i) ==
    IF w.entities[i].toggleState = "Top" THEN w
    ELSE IF w.entities[i].locked THEN w
    ELSE goToTop(w, i)

input_open(w, i) ==
    IF w.entities[i].toggleState \in {"Top", "GoingToTop"} THEN w
    ELSE IF w.entities[i].locked THEN w
    ELSE goToTop([w EXCEPT !.entities[i].g_openAccepted = TRUE,
                           !.entities[i].g_openFrom = w.entities[i].toggleState,
                           !.entities[i].g_elapsed = 0,
                           !.entities[i].g_fullyOpenFires = 0,
                           !.entities[i].g_fullyOpenElapsed = -1], i)

input_toggle(w, i) ==
    IF w.entities[i].locked THEN w
    ELSE IF w.entities[i].toggleState = "Top" THEN goToTop(w, i)
    ELSE IF w.entities[i].toggleState = "Bottom" THEN goToBottom(w, i)
    ELSE w

\* func_door.spawn with updateExtents; moveDistance = |dot(forward, extents) * 2|
func_door_spawn(w, i) ==
    LET e == w.entities[i]
        moveDistance == Abs(e.extentDot * 2)
    IN  [w EXCEPT !.entities[i].positionClosed = e.localOrigin,
                  !.entities[i].positionOpened = e.localOrigin + moveDistance]

\* ------------------------------------------------------------ math_counter
\* updateValue whose onHitMax is level-triggered: it ignores maxEdgeState
updateValue_LevelTriggered(w, i, v) ==
    LET e == w.entities[i]
        hitMax == e.max # 0 /\ v >= e.max
        v1 == IF hitMax THEN e.max ELSE v
        w1 == IF hitMax THEN EntityOutput_fire(w, i, "onhitmax", "") ELSE w
        hitMin == e.min # 0 /\ v1 <= e.min
        v2 == IF hitMin THEN e.min ELSE v1
        w2 == IF hitMin /\ ~e.minEdgeState
              THEN EntityOutput_fire(w1, i, "onhitmin", "") ELSE w1
        w3 == [w2 EXCEPT !.entities[i].value = v2,
                         !.entities[i].maxEdgeState = IF e.max # 0 THEN hitMax ELSE @,
                         !.entities[i].minEdgeState = IF e.min # 0 THEN hitMin ELSE @,
                         !.entities[i].g_hitMax =
                             IF hitMax THEN TRUE ELSE IF v2 < e.max THEN FALSE ELSE @]
    IN  EntityOutput_fire(w3, i, "outvalue", "")

updateValue(w, i, v) ==
    LET e == w.entities[i]
        hitMax == e.max # 0 /\ v >= e.max
        v1 == IF hitMax THEN e.max ELSE v
        fireMax == hitMax /\ ~e.maxEdgeState
        w1 == IF fireMax THEN EntityOutput_fire(w, i, "onhitmax", "") ELSE w
        maxEdge == IF e.max # 0 THEN hitMax ELSE e.maxEdgeState
        hitMin == e.min # 0 /\ v1 <= e.min
        v2 == IF hitMin THEN e.min ELSE v1
        fireMin == hitMin /\ ~e.minEdgeState
        w2 == IF fireMin THEN EntityOutput_fire(w1, i, "onhitmin", "") ELSE w1
        minEdge == IF e.min # 0 THEN hitMin ELSE e.minEdgeState
        w3 == [w2 EXCEPT !.entities[i].value = v2,
                         !.entities[i].maxEdgeState = maxEdge,
                         !.entities[i].minEdgeState = minEdge,
                         !.entities[i].g_hitMax =
                             IF fireMax THEN TRUE ELSE IF v2 < e.max THEN FALSE ELSE @]
    IN  EntityOutput_fire(w3, i, "outvalue", "")

input_add(w, i, value) == updateValue(w, i, w.entities[i].value + Number(value))

input_subtract(w, i, value) == updateValue(w, i, w.entities[i].value - Number(value))

\* ------------------------------------------------- logic_relay, logic_auto
input_trigger(w, i) == EntityOutput_fire(w, i, "ontrigger", "")

logic_auto_spawn(w, i) == EntityOutput_fire(w, i, "onmapspawn", "")

\* ------------------------------------------- trigger_multiple, trigger_once
onTouch(w, i) ==
    EntityOutput_fire(EntityOutput_fire(w, i, "ontrigger", ""), i, "onstarttouch", "")

trigger_multiple_onUnTouch(w, i) ==
    EntityOutput_fire(EntityOutput_fire(w, i, "onendtouch", ""), i, "onendtouchall", "")

trigger_once_onUnTouch(w, i) == remove(trigger_multiple_onUnTouch(w, i), i)

onUnTouch(w, i) ==
    IF w.entities[i].classname = "trigger_once" THEN trigger_once_onUnTouch(w, i)
    ELSE trigger_multiple_onUnTouch(w, i)

\* aabb.containsSphere(camera in model space, playerSize): the volume is the
\* set of camera positions that touch the trigger
trigger_multiple_movement(w, i, camera) ==
    LET e == w.entities[i]
        isPlayerTouching == camera \in e.volume
    IN  IF e.hasModel /\ e.isPlayerTouching # isPlayerTouching
        THEN LET w1 == [w EXCEPT !.entities[i].isPlayerTouching = isPlayerTouching]
             IN  IF e.enabled
                 THEN IF isPlayerTouching THEN onTouch(w1, i) ELSE onUnTouch(w1, i)
                 ELSE w1
        ELSE w

\* --------------------------------------------------- virtual dispatch
\* the function stored in BaseEntity.inputs under inputName
callInput(w, i, inputName, value) ==
    LET c == w.entities[i].classname IN
    CASE inputName = "enable"  -> input_enable(w, i)
      [] inputName = "disable" -> input_disable(w, i)
      [] c = "func_door" /\ inputName = "close"  -> input_close(w, i)
      [] c = "func_door" /\ inputName = "open"   -> input_open(w, i)
      [] c = "func_door" /\ inputName = "toggle" -> input_toggle(w, i)
      [] c = "math_counter" /\ inputName = "add" -> input_add(w, i, value)
      [] c = "math_counter" /\ inputName = "subtract" -> input_subtract(w, i, value)
      [] c = "logic_relay" /\ inputName = "trigger" -> input_trigger(w, i)

\* history: the world w1 a fireInput call on w returned, with the call recorded
InputRecorded(w, w1, i, inputName, value, known) ==
    [w1 EXCEPT !.stepInputs =
        Append(@, [ent |-> i, inputName |-> inputName, value |-> value, known |-> known,
                   pre |-> w.entities, post |-> w1.entities,
                   queuePre |-> w.outputQueue, queuePost |-> w1.outputQueue,
                   fired |-> w1.curFired])]

\* a fireInput that treats an unregistered input as disable
fireInput_UnknownDisables(w, i, inputName, value) ==
    IF inputName \in RegisteredInputs(w.entities[i].classname)
    THEN InputRecorded(w, callInput([w EXCEPT !.curFired = <<>>], i, inputName, value),
                       i, inputName, value, TRUE)
    ELSE InputRecorded(w, input_disable([w EXCEPT !.curFired = <<>>], i),
                       i, inputName, value, FALSE)

\* BaseEntity.fireInput: an input that is not registered does nothing
fireInput(w, i, inputName, value) ==
    IF inputName \in RegisteredInputs(w.entities[i].classname)
    THEN InputRecorded(w, callInput([w EXCEPT !.curFired = <<>>], i, inputName, value),
                       i, inputName, value, TRUE)
    ELSE InputRecorded(w, [w EXCEPT !.curFired = <<>>], i, inputName, value, FALSE)

\* entity.spawn(entitySystem) of the entity's class
spawn(w, i) ==
    LET c == w.entities[i].classname IN
    CASE c = "func_door"  -> func_door_spawn(w, i)
      [] c = "logic_auto" -> logic_auto_spawn(w, i)
      [] OTHER -> w

\* entity.movement(entitySystem, renderContext) of the entity's class
movement(w, i, deltaTime, camera) ==
    LET c == w.entities[i].classname
        w0 == [w EXCEPT !.curFired = <<>>]
    IN  CASE c = "func_door" -> BaseToggle_movement(w0, i, deltaTime)
          [] c \in {"trigger_multiple", "trigger_once"} -> trigger_multiple_movement(w0, i, camera)
          [] OTHER -> w0

\* createEntity: the registered factory of the classname, else a plain BaseEntity
createEntity(b) ==
    CASE b.classname = "func_door"        -> func_door_new(b)
      [] b.classname = "logic_auto"       -> logic_auto_new(b)
      [] b.classname = "logic_relay"      -> logic_relay_new(b)
      [] b.classname = "math_counter"     -> math_counter_new(b)
      [] b.classname = "trigger_multiple" -> trigger_multiple_new(b)
      [] b.classname = "trigger_once"     -> trigger_multiple_new(b)
      [] OTHER -> BaseEntity_new(b)

\* ------------------------------------------------------------ EntitySystem
\* entityMatchesTargetName that lets an unnamed entity match every name
entityMatchesTargetName_Wildcard(entity, targetName) ==
    entity.targetName = targetName \/ entity.targetName = NullName

entityMatchesTargetName(entity, targetName) == entity.targetName = targetName

RECURSIVE dispatchFrom(_, _, _)
dispatchFrom(w, event, i) ==
    IF i > Len(w.entities) THEN w
    ELSE IF ~entityMatchesTargetName(w.entities[i], event.action.targetName)
         THEN dispatchFrom(w, event, i + 1)
         ELSE LET w1 == fireInput(w, i, event.action.inputName, event.value)
                  w2 == [w1 EXCEPT !.evlog[event.id].targets = Append(@, i)]
              IN  dispatchFrom(w2, event, i + 1)

\* fireEntityOutputAction that leaves a fired event to be fired again
fireEntityOutputAction_KeepsEvent(w, event) ==
    IF w.currentTime < event.triggerTime THEN [fired |-> FALSE, w |-> w]
    ELSE LET w1 == [w EXCEPT !.evlog[event.id].ndisp = @ + 1,
                             !.evlog[event.id].dispTime = w.currentTime]
         IN  [fired |-> FALSE, w |-> dispatchFrom(w1, event, 1)]

\* returns whether the event fired, and the world after dispatching it
fireEntityOutputAction(w, event) ==
    IF w.currentTime < event.triggerTime THEN [fired |-> FALSE, w |-> w]
    ELSE LET w1 == [w EXCEPT !.evlog[event.id].ndisp = @ + 1,
                             !.evlog[event.id].dispTime = w.currentTime]
         IN  [fired |-> TRUE, w |-> dispatchFrom(w1, event, 1)]

\* a removal that fills the gap with the last event of the queue
Splice_SwapWithLast(q, i) ==
    [k \in 1..(Len(q) - 1) |-> IF k = i THEN q[Len(q)] ELSE q[k]]

\* outputQueue.splice(i, 1)
Splice(q, i) == [k \in 1..(Len(q) - 1) |-> IF k < i THEN q[k] ELSE q[k + 1]]

\* a loop test that stops one event short
DrainContinues_OffByOne(q, i) == i < Len(q)

\* for (i = 0; i < outputQueue.length; i++): the loop test
DrainContinues(q, i) == i <= Len(q)

\* a movement loop that does not look at alive
MayMove_Always(entity) == TRUE

\* if (this.entities[i].alive) in EntitySystem.movement
MayMove(entity) == entity.alive

\* ---------------------------------------------------------------- actions
KeepFrame == UNCHANGED <<level, ticks, globalDeltaTime, cameraPos, frvars, unitvars>>

\* createEntities: one createEntity per record of the level, then spawn()
CreateEntity ==
    /\ pc = "create"
    /\ Len(entities) < Len(level)
    /\ entities' = Append(entities, createEntity(level[Len(entities) + 1]))
    /\ spawnCalls' = Append(spawnCalls, 0)
    /\ pc' = IF Len(entities') = Len(level) THEN "spawn" ELSE "create"
    /\ ei' = 1
    /\ stepFires' = <<>> /\ stepInputs' = <<>>
    /\ UNCHANGED <<currentTime, outputQueue, qi, evlog, stepMoves, drainLog>>
    /\ KeepFrame

\* EntitySystem.spawn: entities[i].spawn(this) for every entity in list order
SpawnEntity ==
    /\ pc = "spawn"
    /\ ei <= Len(entities)
    /\ \E w \in {spawn(World, ei)} :
         /\ entities' = w.entities
         /\ outputQueue' = w.outputQueue
         /\ evlog' = w.evlog
         /\ stepFires' = w.stepFires
         /\ stepInputs' = w.stepInputs
    /\ spawnCalls' = [spawnCalls EXCEPT ![ei] = @ + 1]
    /\ ei' = ei + 1
    /\ pc' = IF ei = Len(entities) THEN "idle" ELSE "spawn"
    /\ UNCHANGED <<currentTime, qi, stepMoves, drainLog>>
    /\ KeepFrame

\* a frame calls EntitySystem.movement(renderContext): processOutputQueue starts
BeginMovement ==
    /\ pc = "idle"
    /\ ticks < MaxTicks
    /\ ticks' = ticks + 1
    /\ globalDeltaTime' \in DeltaTimes
    /\ cameraPos' \in CameraPositions
    /\ pc' = "drain"
    /\ qi' = 1
    /\ stepMoves' = <<>>
    /\ drainLog' = [examined |-> {}, later |-> {}]
    /\ stepFires' = <<>> /\ stepInputs' = <<>>
    /\ UNCHANGED <<level, entities, currentTime, outputQueue, ei, evlog, spawnCalls>>
    /\ UNCHANGED <<frvars, unitvars>>

\* one iteration of the loop of processOutputQueue
ProcessOutputQueueStep ==
    /\ pc = "drain"
    /\ DrainContinues(outputQueue, qi)
    /\ Len(evlog) < MaxEvents
    /\ \E r \in {fireEntityOutputAction(World, outputQueue[qi])} :
           /\ entities' = r.w.entities
           /\ evlog' = r.w.evlog
           /\ stepFires' = r.w.stepFires
           /\ stepInputs' = r.w.stepInputs
           /\ outputQueue' = IF r.fired THEN Splice(r.w.outputQueue, qi) ELSE r.w.outputQueue
           /\ qi' = IF r.fired THEN qi ELSE qi + 1
           /\ drainLog' = [drainLog EXCEPT !.examined = @ \cup {outputQueue[qi].id}]
    /\ UNCHANGED <<currentTime, pc, ei, stepMoves, spawnCalls>>
    /\ KeepFrame

\* processOutputQueue returns; the loop over the entities starts
ProcessOutputQueueDone ==
    /\ pc = "drain"
    /\ ~DrainContinues(outputQueue, qi)
    /\ pc' = "move"
    /\ ei' = 1
    /\ stepFires' = <<>> /\ stepInputs' = <<>>
    /\ UNCHANGED <<entities, currentTime, outputQueue, qi, evlog, stepMoves,
                   spawnCalls, drainLog>>
    /\ KeepFrame

\* one iteration of the loop over the entities in EntitySystem.movement
MoveEntity ==
    /\ pc = "move"
    /\ ei <= Len(entities)
    /\ \E w \in {IF MayMove(entities[ei])
                  THEN movement(World, ei, globalDeltaTime, cameraPos)
                  ELSE World} :
           /\ entities' = w.entities
           /\ outputQueue' = w.outputQueue
           /\ evlog' = w.evlog
           /\ stepFires' = w.stepFires
           /\ stepInputs' = w.stepInputs
           /\ drainLog' = [drainLog EXCEPT
                             !.later = @ \cup ((Len(evlog) + 1)..Len(w.evlog))]
    /\ stepMoves' = IF MayMove(entities[ei]) THEN Append(stepMoves, ei) ELSE stepMoves
    /\ ei' = ei + 1
    /\ UNCHANGED <<currentTime, pc, qi, spawnCalls>>
    /\ KeepFrame

\* this.currentTime += renderContext.globalDeltaTime; movement returns
EndMovement ==
    /\ pc = "move"
    /\ ei > Len(entities)
    /\ currentTime' = currentTime + globalDeltaTime
    /\ pc' = "idle"
    /\ stepFires' = <<>> /\ stepInputs' = <<>>
    /\ UNCHANGED <<entities, outputQueue, qi, ei, evlog, stepMoves, spawnCalls, drainLog>>
    /\ KeepFrame

Next ==
    \/ CreateEntity
    \/ SpawnEntity
    \/ BeginMovement
    \/ ProcessOutputQueueStep
    \/ ProcessOutputQueueDone
    \/ MoveEntity
    \/ EndMovement

\* ----------------------------------------------------------------- levels
MaxDelay == 2
MaxSpeed == 2

BSPEntity(classname, targetname) ==
    [classname |-> classname, targetname |-> targetname, model |-> FALSE, origin |-> 0,
     startdisabled |-> "", speed |-> 0, spawnpos |-> 0, extentDot |-> 0,
     startvalue |-> 0, min |-> 0, max |-> 0, volume |-> {}, outputs |-> NoOutputs]

\* a level that wires every entity class together; d is the delay of the
\* delayed actions
LevelIO(d) ==
    << [BSPEntity("logic_auto", "") EXCEPT
          !.outputs = ("onmapspawn" :> << EntityOutputAction("relay", "trigger", "", d),
                                          EntityOutputAction("nobody", "open", "", 0) >>)
                      @@ NoOutputs],
       [BSPEntity("trigger_multiple", "trig") EXCEPT
          !.model = TRUE, !.volume = {1, 2},
          !.outputs = ("ontrigger" :> << EntityOutputAction("door", "open", "", d) >>)
                      @@ ("onendtouch" :> << EntityOutputAction("door", "close", "", 0) >>)
                      @@ NoOutputs],
       [BSPEntity("func_door", "door") EXCEPT
          !.model = TRUE, !.speed = 1, !.extentDot = 1,
          !.outputs = ("onfullyopen" :> << EntityOutputAction("counter", "add", "5", 0) >>)
                      @@ ("onopen" :> << EntityOutputAction("door", "disable", "", 1) >>)
                      @@ NoOutputs],
       [BSPEntity("logic_relay", "door") EXCEPT
          !.outputs = ("ontrigger" :> << EntityOutputAction("once", "enable", "", 0) >>)
                      @@ NoOutputs],
       [BSPEntity("logic_relay", "relay") EXCEPT
          !.outputs = ("ontrigger" :> << EntityOutputAction("counter", "add", "1", 0),
                                         EntityOutputAction("counter", "subtract", "", d) >>)
                      @@ NoOutputs],
       [BSPEntity("math_counter", "counter") EXCEPT
          !.startvalue = 8, !.max = 10,
          !.outputs = ("onhitmax" :> << EntityOutputAction("door", "close", "", 1) >>)
                      @@ NoOutputs],
       [BSPEntity("trigger_once", "once") EXCEPT
          !.model = TRUE, !.volume = {2},
          !.outputs = ("ontrigger" :> << EntityOutputAction("counter", "subtract", "2", d) >>)
                      @@ NoOutputs],
       BSPEntity("info_target", "") >>

LevelsIO == {LevelIO(d) : d \in 0..MaxDelay}

\* a door driven by two trigger volumes
LevelDoor(speed, extentDot, spawnpos) ==
    << [BSPEntity("trigger_multiple", "trig") EXCEPT
          !.model = TRUE, !.volume = {1, 2},
          !.outputs = ("ontrigger" :> << EntityOutputAction("door", "open", "", 0) >>)
                      @@ ("onendtouch" :> << EntityOutputAction("door", "close", "", 0) >>)
                      @@ NoOutputs],
       [BSPEntity("trigger_multiple", "trig2") EXCEPT
          !.model = TRUE, !.volume = {2},
          !.outputs = ("ontrigger" :> << EntityOutputAction("door", "open", "", 0) >>)
                      @@ ("onendtouch" :> << EntityOutputAction("door", "toggle", "", 0) >>)
                      @@ NoOutputs],
       [BSPEntity("func_door", "door") EXCEPT
          !.model = TRUE, !.speed = speed, !.extentDot = extentDot, !.spawnpos = spawnpos,
          !.outputs = ("onopen" :> << EntityOutputAction("lamp", "turnon", "", 0) >>)
                      @@ ("onfullyopen" :> << EntityOutputAction("lamp", "turnoff", "", 0) >>)
                      @@ ("onclose" :> << EntityOutputAction("lamp", "toggle", "", 0) >>)
                      @@ NoOutputs] >>

\* dot(forward, modelExtents) of the door's model; half of the signed distance
DoorExtents == {-1, 0, 1}

\* doors that spawn closed, and doors that spawn open (spawnpos 1)
LevelsDoor ==
    {LevelDoor(s, x, 0) : s \in 0..MaxSpeed, x \in DoorExtents}
        \cup {LevelDoor(s, 1, 1) : s \in 1..MaxSpeed}

\* a counter driven by two trigger volumes
LevelCounter(min, max, startvalue) ==
    << [BSPEntity("trigger_multiple", "trig") EXCEPT
          !.model = TRUE, !.volume = {1, 2},
          !.outputs = ("ontrigger" :> << EntityOutputAction("counter", "add", "5", 0) >>)
                      @@ ("onendtouch" :> << EntityOutputAction("counter", "subtract", "7", 0) >>)
                      @@ NoOutputs],
       [BSPEntity("trigger_multiple", "trig2") EXCEPT
          !.model = TRUE, !.volume = {2},
          !.outputs = ("ontrigger" :> << EntityOutputAction("counter", "add", "1", 0) >>)
                      @@ ("onendtouch" :> << EntityOutputAction("counter", "add", "", 0) >>)
                      @@ NoOutputs],
       [BSPEntity("math_counter", "counter") EXCEPT
          !.startvalue = startvalue, !.min = min, !.max = max,
          !.outputs = ("onhitmax" :> << EntityOutputAction("lamp", "turnon", "", 0) >>)
                      @@ NoOutputs] >>

CounterLimits == {<<0, 10>>, <<0, 0>>, <<5, 10>>, <<10, 10>>, <<12, 10>>, <<5, 0>>}
CounterStarts == {1, 8, 10, 13}

LevelsCounter ==
    {LevelCounter(l[1], l[2], s) : l \in CounterLimits, s \in CounterStarts}

\* ---------------------------------------------------------- specifications
\* the state after `new EntitySystem()`, before createEntities
InitSystem ==
    /\ entities = <<>>
    /\ currentTime = 0
    /\ outputQueue = <<>>
    /\ pc = "create"
    /\ qi = 1
    /\ ei = 1
    /\ ticks = 0
    /\ globalDeltaTime = 0
    /\ cameraPos = 0
    /\ evlog = <<>>
    /\ stepFires = <<>>
    /\ stepInputs = <<>>
    /\ stepMoves = <<>>
    /\ spawnCalls = <<>>
    /\ drainLog = [examined |-> {}, later |-> {}]

\* no renderer is running in the entity-system specifications
NoRenderer ==
    /\ renderer = [n |-> 0]
    /\ fpc = "off"
    /\ fr = 1
    /\ frames = 0
    /\ view = [main |-> 0, sky |-> 0]
    /\ pvsScratch = {}
    /\ liveSurfaceSet = <<>>
    /\ liveLeafSet = <<>>
    /\ frameLog = <<>>

\* the units outside the Source-engine world are not running
NoShapes ==
    /\ posMtxVisibility = <<>>
    /\ u_PosMtx = <<>>
    /\ drawCallCount = 0
    /\ shapeDraws = 0
    /\ shapeLog = <<>>

NoModels ==
    /\ bmdModel = <<>>
    /\ modelInstances = <<>>
    /\ teardown = FALSE
    /\ lastRender = <<>>

NoGather ==
    /\ outSurfaceSet = {}
    /\ outLeafSet = {}
    /\ gatherLog = <<>>

NoBinding ==
    /\ surfaceTexNames = <<>>
    /\ bindPc = "off"
    /\ modelEntity = 0
    /\ materialRequests = <<>>
    /\ resolved = <<>>
    /\ resolveOrder = <<>>
    /\ surfaceMaterial = <<>>

NoSurfaces ==
    /\ surfaceVisible = <<>>
    /\ materialVisible = <<>>
    /\ surfaceFrame = <<>>
    /\ skippedUnbound = {}

NoPasses ==
    /\ rpc = "off"
    /\ passes = <<>>
    /\ passIndex = 0
    /\ renderInsts = <<>>
    /\ passLog = <<>>

NoMaterials ==
    /\ hasModelInstance = FALSE
    /\ trk1Animators = <<>>
    /\ ttk1Animators = <<>>
    /\ colorOverrides = <<>>
    /\ alphaOverrides = <<>>
    /\ materialInstanceState = <<>>
    /\ fillLog = <<>>

NoJoints ==
    /\ ank1Animator = <<>>
    /\ jointMatrices = <<>>
    /\ jointVisibility = <<>>
    /\ matrixArray = <<>>
    /\ instMatrixVisibility = <<>>
    /\ jointLog = <<>>

NoParents ==
    /\ parentCfg = <<>>
    /\ parentEntity = <<>>
    /\ entityModelMatrix = <<>>
    /\ callStack = <<>>
    /\ callRet = <<>>
    /\ ppc = "off"
    /\ spawnNext = 0

NoUnits == NoShapes /\ NoModels /\ NoGather /\ NoBinding /\ NoSurfaces /\ NoPasses /\ NoMaterials /\ NoJoints /\ NoParents

\* per unit, the other units are not running
NoUnitsButShapes == NoModels /\ NoGather /\ NoBinding /\ NoSurfaces /\ NoPasses /\ NoMaterials /\ NoJoints /\ NoParents
NoUnitsButModels == NoShapes /\ NoGather /\ NoBinding /\ NoSurfaces /\ NoPasses /\ NoMaterials /\ NoJoints /\ NoParents
NoUnitsButGather == NoShapes /\ NoModels /\ NoBinding /\ NoSurfaces /\ NoPasses /\ NoMaterials /\ NoJoints /\ NoParents
NoUnitsButBinding == NoShapes /\ NoModels /\ NoGather /\ NoSurfaces /\ NoPasses /\ NoMaterials /\ NoJoints /\ NoParents
NoUnitsButSurfaces == NoShapes /\ NoModels /\ NoGather /\ NoBinding /\ NoPasses /\ NoMaterials /\ NoJoints /\ NoParents
NoUnitsButPasses == NoShapes /\ NoModels /\ NoGather /\ NoBinding /\ NoSurfaces /\ NoMaterials /\ NoJoints /\ NoParents
NoUnitsButMaterials == NoShapes /\ NoModels /\ NoGather /\ NoBinding /\ NoSurfaces /\ NoPasses /\ NoJoints /\ NoParents
NoUnitsButJoints == NoShapes /\ NoModels /\ NoGather /\ NoBinding /\ NoSurfaces /\ NoPasses /\ NoMaterials /\ NoParents
NoUnitsButParents == NoShapes /\ NoModels /\ NoGather /\ NoBinding /\ NoSurfaces /\ NoPasses /\ NoMaterials /\ NoJoints
NoUnitsButBindingAndSurfaces == NoShapes /\ NoModels /\ NoGather /\ NoPasses /\ NoMaterials /\ NoJoints /\ NoParents

Init == level \in LevelsIO /\ InitSystem /\ NoRenderer /\ NoUnits
Spec == Init /\ [][Next]_vars

InitDoor == level \in LevelsDoor /\ InitSystem /\ NoRenderer /\ NoUnits
SpecDoor == InitDoor /\ [][Next]_vars

InitCounter == level \in LevelsCounter /\ InitSystem /\ NoRenderer /\ NoUnits
SpecCounter == InitCounter /\ [][Next]_vars


\* ----------------------------------------------------------- SourceRenderer
MaxRenderers == 2
MaxFrames == 2
NumClusters == 2

Clusters == 0..(NumClusters - 1)
\* leaf.cluster of a leaf without visibility data
InvalidCluster == 65535
\* findLeafForPoint found no leaf
NoLeaf == -1

\* bsp.visibility.pvs[cluster]: the clusters visible from a cluster
VisibilityPVS(cluster) == IF cluster = 0 THEN Clusters ELSE {cluster}

\* the leaves of the world model, their clusters and surfaces
Leaves == 1..3
LeafCluster(leaf) == IF leaf = 1 THEN 0 ELSE 1
LeafSurfaces(leaf) == IF leaf = 1 THEN {1} ELSE IF leaf = 2 THEN {2} ELSE {2, 3}
\* view.frustum.contains(leaf bbox)
InFrustum(viewName, leaf) == viewName = "main" \/ leaf # 1

\* RenderObjectKind masks passed by prepareToRender
SkyboxKinds == {"WorldSpawn", "StaticProps"}
MainKinds == {"WorldSpawn", "Entities", "StaticProps", "DetailProps", "DebugCube"}

\* the state a frame threads through its calls
FrameState ==
    [log |-> frameLog, pvs |-> pvsScratch, surfaces |-> liveSurfaceSet, leaves |-> liveLeafSet]

Log(st, entry) == [st EXCEPT !.log = Append(@, entry)]

\* calcPVS that takes the visibility of any leaf it finds, 0xFFFF included
calcPVS_AnyCluster(pvs, leafCluster, pvsEnabled) ==
    IF ~pvsEnabled THEN [ok |-> FALSE, pvs |-> pvs]
    ELSE IF leafCluster # NoLeaf
         THEN [ok |-> TRUE, pvs |-> {} \cup VisibilityPVS(leafCluster)]
         ELSE [ok |-> FALSE, pvs |-> pvs]

\* SourceRenderer.calcPVS: whether the bitmap now holds the PVS of the view
calcPVS(pvs, leafCluster, pvsEnabled) ==
    IF ~pvsEnabled THEN [ok |-> FALSE, pvs |-> pvs]
    ELSE IF leafCluster # NoLeaf /\ leafCluster # InvalidCluster
         THEN [ok |-> TRUE, pvs |-> {} \cup VisibilityPVS(leafCluster)]
         ELSE [ok |-> FALSE, pvs |-> pvs]

\* BSPModelRenderer.gatherSurfaces on the world model: the live leaves
gatherLeaves(pvs, viewName) ==
    {l \in Leaves : LeafCluster(l) \in pvs /\ InFrustum(viewName, l)}

gatherSurfaces(pvs, viewName) ==
    UNION {LeafSurfaces(l) : l \in gatherLeaves(pvs, viewName)}

Entry(op, i, viewName, st, set) ==
    [op |-> op, renderer |-> i, view |-> viewName, ok |-> TRUE, pvs |-> st.pvs, set |-> set]

\* one call of renderer i for a view, logged with the PVS it is made under
Submit(st, op, i, viewName, set) == Log(st, Entry(op, i, viewName, st, set))

\* gatherSurfaces(liveSurfaceSet, null, pvs, view)
gatherLiveSurfaces(st, i, viewName) ==
    Submit([st EXCEPT !.surfaces[i] = gatherSurfaces(st.pvs, viewName)],
           "gatherSurfaces", i, viewName, gatherSurfaces(st.pvs, viewName))

\* BSPModelRenderer.prepareToRenderWorld
prepareToRenderWorld(st, i, viewName) ==
    LET st1 == Submit(st, "displacementSurfaces", i, viewName, {})
        st2 == gatherLiveSurfaces(st1, i, viewName)
    IN  Submit(st2, "submitSurfaces", i, viewName, st2.surfaces[i])

\* gatherSurfaces(null, liveLeafSet, pvs, view)
gatherLiveLeaves(st, i, viewName) ==
    Submit([st EXCEPT !.leaves[i] = gatherLeaves(st.pvs, viewName)],
           "gatherLeaves", i, viewName, gatherLeaves(st.pvs, viewName))

\* a call that uses the live leaf set of renderer i
SubmitLeaves(st, op, i, viewName) == Submit(st, op, i, viewName, st.leaves[i])

\* the part of prepareToRenderView that is guarded by one RenderObjectKind
prepareKind(st, i, viewName, kinds, kind) ==
    IF kind \notin kinds THEN st
    ELSE CASE kind = "WorldSpawn"  -> prepareToRenderWorld(st, i, viewName)
           [] kind = "Entities"    -> Submit(st, "submitEntities", i, viewName, {})
           [] kind = "StaticProps" -> Submit(st, "submitStaticProps", i, viewName, {})
           [] kind = "DetailProps" ->
                 SubmitLeaves(gatherLiveLeaves(st, i, viewName), "submitDetailProps", i, viewName)
           [] kind = "DebugCube"   -> SubmitLeaves(st, "debugOverlay", i, viewName)

\* BSPRenderer.prepareToRenderView
prepareToRenderView(st, i, viewName, kinds) ==
    LET st1 == prepareKind(st, i, viewName, kinds, "WorldSpawn")
        st2 == prepareKind(st1, i, viewName, kinds, "Entities")
        st3 == prepareKind(st2, i, viewName, kinds, "StaticProps")
        st4 == prepareKind(st3, i, viewName, kinds, "DetailProps")
    IN  prepareKind(st4, i, viewName, kinds, "DebugCube")

\* the body of the 3D-skybox loop of prepareToRender for renderer i
prepareSkyboxView(st, i, hasSkyCamera, leafCluster, pvsEnabled) ==
    IF ~hasSkyCamera THEN st
    ELSE LET r == calcPVS(st.pvs, leafCluster, pvsEnabled)
             st1 == Log([st EXCEPT !.pvs = r.pvs],
                        [op |-> "calcPVS", renderer |-> i, view |-> "sky", ok |-> r.ok,
                         pvs |-> r.pvs, set |-> {}])
         IN  IF ~r.ok THEN st1
             ELSE prepareToRenderView(st1, i, "sky", SkyboxKinds)

\* the main-view loop body without the fallback fill
prepareMainView_NoFallback(st, i, leafCluster, pvsEnabled) ==
    LET r == calcPVS(st.pvs, leafCluster, pvsEnabled)
        st1 == Log([st EXCEPT !.pvs = r.pvs],
                   [op |-> "calcPVS", renderer |-> i, view |-> "main", ok |-> r.ok,
                    pvs |-> r.pvs, set |-> {}])
    IN  prepareToRenderView(st1, i, "main", MainKinds)

\* the body of the main-view loop of prepareToRender for renderer i
prepareMainView(st, i, leafCluster, pvsEnabled) ==
    LET r == calcPVS(st.pvs, leafCluster, pvsEnabled)
        st1 == Log([st EXCEPT !.pvs = r.pvs],
                   [op |-> "calcPVS", renderer |-> i, view |-> "main", ok |-> r.ok,
                    pvs |-> r.pvs, set |-> {}])
        st2 == IF r.ok THEN st1
               ELSE Log([st1 EXCEPT !.pvs = Clusters],
                        [op |-> "fill", renderer |-> i, view |-> "main", ok |-> TRUE,
                         pvs |-> Clusters, set |-> {}])
    IN  prepareToRenderView(st2, i, "main", MainKinds)

\* BSPRenderer.movement: the entity system, then the models, then the props
BSPRenderer_movement(st, i) ==
    LET st1 == Submit(st, "entitySystem.movement", i, "main", {})
        st2 == Submit(st1, "models.movement", i, "main", {})
    IN  Submit(st2, "staticProps.movement", i, "main", {})

KeepSystem == UNCHANGED <<esvars, unitvars>>

SetFrameState(st) ==
    /\ frameLog' = st.log
    /\ pvsScratch' = st.pvs
    /\ liveSurfaceSet' = st.surfaces
    /\ liveLeafSet' = st.leaves

\* render() calls prepareToRender: times and views are set up
BeginFrame ==
    /\ fpc = "idle"
    /\ frames < MaxFrames
    /\ frames' = frames + 1
    /\ view' \in [main : Clusters \cup {InvalidCluster, NoLeaf},
                  sky : Clusters \cup {InvalidCluster, NoLeaf}]
    /\ fpc' = "movement"
    /\ fr' = 1
    /\ frameLog' = <<>>
    /\ UNCHANGED <<renderer, pvsScratch, liveSurfaceSet, liveLeafSet>>
    /\ KeepSystem

\* SourceRenderer.movement: one BSP renderer
FrameMovement ==
    /\ fpc = "movement"
    /\ fr <= renderer.n
    /\ SetFrameState(BSPRenderer_movement(FrameState, fr))
    /\ fr' = fr + 1
    /\ UNCHANGED <<renderer, fpc, frames, view>>
    /\ KeepSystem

\* the 2D skybox is submitted
FrameSkybox2D ==
    /\ fpc = "movement"
    /\ fr > renderer.n
    /\ SetFrameState(IF renderer.skyboxRenderer /\ renderer.drawSkybox2D
                     THEN Submit(FrameState, "submitSkybox2D", 0, "sky2d", {})
                     ELSE FrameState)
    /\ fpc' = IF renderer.drawSkybox3D THEN "skybox3d" ELSE "main"
    /\ fr' = 1
    /\ UNCHANGED <<renderer, frames, view>>
    /\ KeepSystem

\* one iteration of the 3D-skybox loop
FrameSkybox3D ==
    /\ fpc = "skybox3d"
    /\ fr <= renderer.n
    /\ SetFrameState(prepareSkyboxView(FrameState, fr, renderer.skyCamera[fr],
                                       view.sky, renderer.pvsEnabled))
    /\ fr' = IF fr = renderer.n THEN 1 ELSE fr + 1
    /\ fpc' = IF fr = renderer.n THEN "main" ELSE "skybox3d"
    /\ UNCHANGED <<renderer, frames, view>>
    /\ KeepSystem

\* one iteration of the main-view loop
FrameMainView ==
    /\ fpc = "main"
    /\ renderer.drawWorld
    /\ fr <= renderer.n
    /\ SetFrameState(prepareMainView(FrameState, fr, view.main, renderer.pvsEnabled))
    /\ fr' = fr + 1
    /\ UNCHANGED <<renderer, fpc, frames, view>>
    /\ KeepSystem

\* prepareToRender returns
EndFrame ==
    /\ fpc = "main"
    /\ ~renderer.drawWorld \/ fr > renderer.n
    /\ fpc' = "idle"
    /\ UNCHANGED <<renderer, fr, frames, view, pvsScratch, liveSurfaceSet,
                   liveLeafSet, frameLog>>
    /\ KeepSystem

NextFrame ==
    \/ BeginFrame
    \/ FrameMovement
    \/ FrameSkybox2D
    \/ FrameSkybox3D
    \/ FrameMainView
    \/ EndFrame

\* a renderer with its BSP renderers loaded, before the first frame
InitFrame ==
    /\ level = <<>> /\ InitSystem /\ NoUnits
    /\ \E n \in 1..MaxRenderers :
         renderer \in [n : {n}, skyboxRenderer : BOOLEAN, drawSkybox2D : BOOLEAN,
                       drawSkybox3D : BOOLEAN, drawWorld : BOOLEAN, pvsEnabled : BOOLEAN,
                       skyCamera : [1..n -> BOOLEAN]]
    /\ fpc = "idle"
    /\ fr = 1
    /\ frames = 0
    /\ view = [main |-> 0, sky |-> 0]
    /\ pvsScratch = {}
    /\ liveSurfaceSet = [i \in 1..renderer.n |-> {}]
    /\ liveLeafSet = [i \in 1..renderer.n |-> {}]
    /\ frameLog = <<>>

SpecFrame == InitFrame /\ [][NextFrame]_vars

\* ------------------------------------------------------ history operators
QueuedIds == {outputQueue[k].id : k \in 1..Len(outputQueue)}

Occurrences(id) == Cardinality({k \in 1..Len(outputQueue) : outputQueue[k].id = id})

\* the time from which an event enqueued at time t with delay d may fire
DueTime(e) == e.t + e.action.delay

EntityIndices == [i \in 1..Len(entities) |-> i]

MatchingEntities(targetName) ==
    SelectSeq(EntityIndices, LAMBDA i : entities[i].targetName = targetName)

AllAliveMoved ==
    \A i \in 1..Len(entities) :
        entities[i].alive => \E k \in 1..Len(stepMoves) : stepMoves[k] = i

\* ------------------------------------------------------------------ claims

\* C1: an event enqueued at time t with delay d is not dispatched by a drain
\* at a time below t + d, is dispatched by the first drain at a time of at
\* least t + d, exactly once, is then out of the queue and is never
\* dispatched again.
C1_DelayedEventFiresOnce ==
    \A id \in 1..Len(evlog) :
        LET e == evlog[id] IN
        /\ e.ndisp <= 1
        /\ e.ndisp = 1 => e.dispTime >= DueTime(e) /\ Occurrences(id) = 0
        /\ e.ndisp = 0 => Occurrences(id) = 1
        /\ (pc = "move" /\ e.ndisp = 0 /\ id \notin drainLog.later)
              => currentTime < DueTime(e)

\* a delayed event was skipped, then dispatched, and a later drain has run
C1_Witness ==
    \E id \in 1..Len(evlog) :
        /\ evlog[id].action.delay >= 1
        /\ evlog[id].ndisp = 1
        /\ evlog[id].dispTime > evlog[id].t
        /\ currentTime > evlog[id].dispTime
        /\ pc = "move"

\* C2: in every tick the queue is drained to completion before the first
\* entity moves, and currentTime advances by the frame's delta time only
\* after every alive entity has moved.
C2_DrainThenMoveThenTime ==
    /\ [](stepMoves # <<>> =>
            \A k \in 1..Len(outputQueue) :
                outputQueue[k].id \in drainLog.examined \cup drainLog.later)
    /\ [][/\ currentTime' # currentTime => pc = "move" /\ AllAliveMoved
          /\ (pc = "move" /\ pc' # "move")
                => AllAliveMoved /\ currentTime' = currentTime + globalDeltaTime]_vars

\* a tick that skipped an event, moved entities that enqueued, and advanced time
C2_Witness ==
    /\ pc = "idle"
    /\ ticks >= 2
    /\ globalDeltaTime > 0
    /\ currentTime > 0
    /\ stepMoves # <<>>
    /\ drainLog.later # {}
    /\ \E k \in 1..Len(outputQueue) : outputQueue[k].id \in drainLog.examined

\* C3: EntityOutput.fire dispatches nothing; it appends one event per action,
\* in action order, with triggerTime = currentTime + delay and with the
\* parameterOverride as value when that is non-empty, else the caller's value.
C3_FireOnlyEnqueues ==
    \A f \in 1..Len(stepFires) :
        LET r == stepFires[f]
            n == Len(r.actions)
            base == Len(r.queueBefore)
        IN  /\ Len(r.queueAfter) = base + n
            /\ SubSeq(r.queueAfter, 1, base) = r.queueBefore
            /\ \A k \in 1..n :
                 LET ev == r.queueAfter[base + k] IN
                 /\ ev.action = r.actions[k]
                 /\ ev.triggerTime = r.time + r.actions[k].delay
                 /\ ev.value = IF r.actions[k].parameterOverride # ""
                               THEN r.actions[k].parameterOverride ELSE r.value
            /\ r.targetsAfter = r.targetsBefore
            /\ r.entitiesAfter = r.entitiesBefore

\* an output with two actions, one delayed and without override, was fired
C3_Witness ==
    \E f \in 1..Len(stepFires) :
        /\ Len(stepFires[f].actions) = 2
        /\ stepFires[f].actions[1].parameterOverride # ""
        /\ stepFires[f].actions[2].parameterOverride = ""
        /\ stepFires[f].actions[2].delay > 0
        /\ stepFires[f].queueBefore # <<>>

\* C4: a dispatched event calls fireInput once on each entity whose
\* targetName equals the action's targetName, in entity-list order, and on
\* no other entity; an event matching nobody is dispatched to nobody and is
\* removed all the same.
C4_DispatchToExactMatches ==
    \A id \in 1..Len(evlog) :
        evlog[id].ndisp >= 1 =>
            /\ evlog[id].targets = MatchingEntities(evlog[id].action.targetName)
            /\ id \notin QueuedIds

\* one event reached two entities of the same name, another reached nobody
C4_Witness ==
    /\ \E id \in 1..Len(evlog) : evlog[id].ndisp = 1 /\ Len(evlog[id].targets) = 2
    /\ \E id \in 1..Len(evlog) :
          /\ evlog[id].ndisp = 1
          /\ evlog[id].targets = <<>>
          /\ id \notin QueuedIds


\* --------------------------------------------------- door and counter claims
Doors == {i \in 1..Len(entities) : entities[i].classname = "func_door"}

DoorInputs(inputName) ==
    {k \in 1..Len(stepInputs) :
        /\ stepInputs[k].inputName = inputName
        /\ stepInputs[k].pre[stepInputs[k].ent].classname = "func_door"}

CounterInputs ==
    {k \in 1..Len(stepInputs) :
        /\ stepInputs[k].inputName \in {"add", "subtract"}
        /\ stepInputs[k].pre[stepInputs[k].ent].classname = "math_counter"}

Count(seq, x) == Cardinality({k \in 1..Len(seq) : seq[k] = x})

FirstIndex(seq, x) ==
    IF Count(seq, x) = 0 THEN 0
    ELSE CHOOSE k \in 1..Len(seq) : seq[k] = x /\ \A j \in 1..(k - 1) : seq[j] # x

\* C5: once a door that accepted `open` has reached the open position, its
\* toggle state is Top and onFullyOpen was fired exactly once for that
\* opening, and not before the position was reached.
C5_OpenedDoorIsTop ==
    \A i \in Doors :
        LET e == entities[i] IN
        e.g_openAccepted =>
            /\ e.g_arrived => /\ e.localOrigin = e.positionOpened
                              /\ e.g_fullyOpenFires = 1
                              /\ e.toggleState = "Top"
            /\ ~e.g_arrived => e.g_fullyOpenFires = 0

\* what the door does instead: it arrives, fires onFullyOpen once and stays
\* GoingToTop
C5_ArrivedDoorStaysGoingToTop ==
    \A i \in Doors :
        LET e == entities[i] IN
        e.g_openAccepted =>
            /\ e.g_arrived => /\ e.localOrigin = e.positionOpened
                              /\ e.g_fullyOpenFires = 1
                              /\ e.toggleState = "GoingToTop"
            /\ ~e.g_arrived => e.g_fullyOpenFires = 0

\* C6: `open` on an unlocked door in state Bottom with speed > 0 makes the
\* state GoingToTop and fires onOpen within the input call; onFullyOpen is
\* fired after onOpen, and not before distance/speed of simulated time has
\* elapsed since the input.
C6_OnOpenBeforeOnFullyOpen ==
    /\ \A k \in DoorInputs("open") :
         LET r == stepInputs[k]
             pre == r.pre[r.ent]
             post == r.post[r.ent]
         IN  (pre.toggleState = "Bottom" /\ ~pre.locked /\ pre.speed > 0) =>
                /\ post.toggleState = "GoingToTop"
                /\ Count(r.fired, "onopen") = 1
                /\ Count(r.fired, "onfullyopen") > 0 =>
                      FirstIndex(r.fired, "onfullyopen") > FirstIndex(r.fired, "onopen")
    /\ \A i \in Doors :
         LET e == entities[i] IN
         (e.g_openAccepted /\ e.g_openFrom = "Bottom" /\ e.speed > 0
            /\ e.g_fullyOpenFires > 0) =>
               e.g_fullyOpenElapsed * e.speed >= e.positionOpened - e.positionClosed

\* the same with a positive move distance
C6_PositiveDistance ==
    /\ \A k \in DoorInputs("open") :
         LET r == stepInputs[k]
             pre == r.pre[r.ent]
             post == r.post[r.ent]
         IN  (pre.toggleState = "Bottom" /\ ~pre.locked /\ pre.speed > 0
                /\ pre.positionOpened # pre.positionClosed) =>
                /\ post.toggleState = "GoingToTop"
                /\ r.fired = <<"onopen">>
    /\ \A i \in Doors :
         LET e == entities[i] IN
         (e.g_openAccepted /\ e.g_openFrom = "Bottom" /\ e.speed > 0
            /\ e.g_fullyOpenFires > 0) =>
               e.g_fullyOpenElapsed * e.speed >= e.positionOpened - e.positionClosed

\* C7: `open` on a door that is Top or GoingToTop, or locked, changes neither
\* the toggle state, the target position, the velocity, the remaining move
\* time nor the output queue.
C7_OpenIsNoOpWhenOpening ==
    \A k \in DoorInputs("open") :
        LET r == stepInputs[k]
            pre == r.pre[r.ent]
            post == r.post[r.ent]
        IN  (pre.toggleState \in {"Top", "GoingToTop"} \/ pre.locked) =>
               /\ post.toggleState = pre.toggleState
               /\ post.positionTarget = pre.positionTarget
               /\ post.velocityPerSecond = pre.velocityPerSecond
               /\ post.velocityIsNaN = pre.velocityIsNaN
               /\ post.timeLeftNum = pre.timeLeftNum
               /\ post.timeLeftKind = pre.timeLeftKind
               /\ post.localOrigin = pre.localOrigin
               /\ r.queuePost = r.queuePre
               /\ r.fired = <<>>

\* `open` reached a door that was on its way up
C7_Witness ==
    \E k \in DoorInputs("open") :
        LET pre == stepInputs[k].pre[stepInputs[k].ent] IN
        /\ pre.toggleState = "GoingToTop"
        /\ pre.timeLeftKind = "num" /\ pre.timeLeftNum > 0
        /\ pre.localOrigin # pre.positionClosed
        /\ stepInputs[k].queuePre # <<>>

\* `open` reached a door that spawned at the top
C7_WitnessTop ==
    \E k \in DoorInputs("open") :
        stepInputs[k].pre[stepInputs[k].ent].toggleState = "Top"

\* C8 as stated: with max # 0, an update from below max to at least max
\* clamps the value to max and fires onHitMax once; later updates that leave
\* the value at max fire no onHitMax.
C8_HitMaxAsStated ==
    \A k \in CounterInputs :
        LET r == stepInputs[k]
            pre == r.pre[r.ent]
            post == r.post[r.ent]
            v == IF r.inputName = "add" THEN pre.value + Number(r.value)
                 ELSE pre.value - Number(r.value)
        IN  pre.max # 0 =>
               /\ (pre.value < pre.max /\ v >= pre.max) =>
                     post.value = pre.max /\ Count(r.fired, "onhitmax") = 1
               /\ (pre.g_hitMax /\ post.value = pre.max) =>
                     Count(r.fired, "onhitmax") = 0

\* C8 (amended): the same for a counter whose min is 0 (no lower limit) or
\* below max.
C8_HitMaxEdgeTriggered ==
    \A k \in CounterInputs :
        LET r == stepInputs[k]
            pre == r.pre[r.ent]
            post == r.post[r.ent]
            v == IF r.inputName = "add" THEN pre.value + Number(r.value)
                 ELSE pre.value - Number(r.value)
        IN  (pre.max # 0 /\ (pre.min = 0 \/ pre.min < pre.max)) =>
               /\ (pre.value < pre.max /\ v >= pre.max) =>
                     post.value = pre.max /\ Count(r.fired, "onhitmax") = 1
               /\ (pre.g_hitMax /\ post.value = pre.max) =>
                     Count(r.fired, "onhitmax") = 0

\* min=0, max=10, start 8: after add 5 has hit the maximum, add 1 arrives
C8_Witness ==
    \E k \in CounterInputs :
        LET r == stepInputs[k]
            pre == r.pre[r.ent]
        IN  /\ pre.min = 0 /\ pre.max = 10
            /\ level[r.ent].startvalue = 8
            /\ r.inputName = "add" /\ r.value = "1"
            /\ pre.g_hitMax /\ pre.value = 10
            /\ r.post[r.ent].value = 10

\* C9: every entity is constructed before any spawn(); spawn() runs once per
\* entity before the first movement(); movement() runs once per tick for each
\* alive entity; after remove() the entity stays in the list and its
\* movement() is never called again.
C9_EntityLifecycle ==
    /\ [](/\ (\E i \in 1..Len(spawnCalls) : spawnCalls[i] > 0)
                => Len(entities) = Len(level)
          /\ \A i \in 1..Len(spawnCalls) : spawnCalls[i] <= 1
          /\ pc \in {"idle", "drain", "move"}
                => /\ Len(entities) = Len(level)
                   /\ \A i \in 1..Len(entities) : spawnCalls[i] = 1
          /\ \A i \in 1..Len(entities) : Count(stepMoves, i) <= 1
          /\ (pc = "move" /\ ei > Len(entities)) => AllAliveMoved)
    /\ [][\A i \in 1..Len(entities) :
            ~entities[i].alive =>
               /\ Len(entities') >= Len(entities)
               /\ ~entities'[i].alive
               /\ entities'[i].classname = entities[i].classname
               /\ stepMoves' # Append(stepMoves, i)]_vars

\* a removed entity sat out a whole tick in which the others moved
C9_Witness ==
    \E i \in 1..Len(entities) :
        /\ ~entities[i].alive
        /\ pc = "move" /\ ei > Len(entities)
        /\ Count(stepMoves, i) = 0
        /\ Len(stepMoves) = Len(entities) - 1


\* ------------------------------------------------------------ frame claims
MovementOps == {"entitySystem.movement", "models.movement", "staticProps.movement"}
PVSWrites == {"calcPVS", "fill"}

\* the last write to the PVS bitmap before entry m of the frame, 0 if none
LastPVSWrite(m) ==
    IF \E k \in 1..(m - 1) : frameLog[k].op \in PVSWrites
    THEN CHOOSE k \in 1..(m - 1) :
            /\ frameLog[k].op \in PVSWrites
            /\ \A j \in (k + 1)..(m - 1) : frameLog[j].op \notin PVSWrites
    ELSE 0

\* the last gathering of live leaves before entry m of the frame, 0 if none
LastGatherLeaves(m) ==
    IF \E k \in 1..(m - 1) : frameLog[k].op = "gatherLeaves"
    THEN CHOOSE k \in 1..(m - 1) :
            /\ frameLog[k].op = "gatherLeaves"
            /\ \A j \in (k + 1)..(m - 1) : frameLog[j].op # "gatherLeaves"
    ELSE 0

\* C10: within a frame the movement of every BSP renderer completes before
\* the first PVS computation, gathering or draw submission; and for each view
\* the PVS bitmap is final (calcPVS succeeded or the fallback fill is done)
\* before surfaces and the live-leaf set of the detail props and debug
\* overlays are gathered from it.
C10_MovementThenPVSThenGather ==
    \A m \in 1..Len(frameLog) :
        LET e == frameLog[m] IN
        /\ e.op \notin MovementOps =>
              /\ \A i \in 1..renderer.n : \A op \in MovementOps :
                    \E k \in 1..(m - 1) :
                        frameLog[k].op = op /\ frameLog[k].renderer = i
              /\ \A k \in (m + 1)..Len(frameLog) : frameLog[k].op \notin MovementOps
        /\ e.op \in {"displacementSurfaces", "gatherSurfaces", "submitStaticProps",
                     "gatherLeaves"} =>
              LET k == LastPVSWrite(m) IN
              /\ k > 0
              /\ frameLog[k].renderer = e.renderer
              /\ frameLog[k].view = e.view
              /\ frameLog[k].ok
              /\ frameLog[k].pvs = e.pvs
        /\ e.op \in {"submitDetailProps", "debugOverlay"} =>
              LET g == LastGatherLeaves(m) IN
              /\ g > 0
              /\ frameLog[g].renderer = e.renderer
              /\ frameLog[g].view = e.view
              /\ frameLog[g].set = e.set

\* a finished frame of two BSP renderers with a 3D skybox drawn from its own
\* PVS and a main view drawn from the fallback fill
C10_Witness ==
    /\ fpc = "idle" /\ frames >= 1 /\ renderer.n = 2
    /\ \E m \in 1..Len(frameLog) :
          frameLog[m].op = "gatherSurfaces" /\ frameLog[m].view = "sky"
    /\ \E k, m \in 1..Len(frameLog) :
          /\ k < m
          /\ frameLog[k].op = "fill"
          /\ frameLog[m].op = "debugOverlay" /\ frameLog[m].set # {}

\* the calcPVS calls of the frame whose camera is in no leaf or in a leaf
\* without visibility data
UnresolvedPVSCalls ==
    {m \in 1..Len(frameLog) :
        /\ frameLog[m].op = "calcPVS"
        /\ view[frameLog[m].view] \in {NoLeaf, InvalidCluster}}

\* C11 as stated: for every view for which calcPVS is called with a camera
\* in no leaf or in a leaf of cluster 0xFFFF, calcPVS returns false and the
\* caller's bitmap ends up fully set.
C11_FallbackForEveryView ==
    \A m \in UnresolvedPVSCalls :
        /\ ~frameLog[m].ok
        /\ m < Len(frameLog)
        /\ frameLog[m + 1].op = "fill"
        /\ frameLog[m + 1].pvs = Clusters

\* C11 amended: calcPVS returns false for such a camera; for the main view
\* the caller then sets every bit and renders the view from the full bitmap;
\* for a 3D-skybox view the caller leaves the bitmap as it was and submits
\* nothing of that renderer for the skybox view.
C11_FallbackForMainView ==
    \A m \in UnresolvedPVSCalls :
        LET e == frameLog[m] IN
        /\ ~e.ok
        /\ m > 1 => e.pvs = frameLog[m - 1].pvs
        /\ e.view = "main" =>
              /\ m + 1 < Len(frameLog)
              /\ frameLog[m + 1].op = "fill"
              /\ frameLog[m + 1].pvs = Clusters
              /\ frameLog[m + 1].renderer = e.renderer
              /\ frameLog[m + 2].renderer = e.renderer
              /\ frameLog[m + 2].view = "main"
              /\ frameLog[m + 2].pvs = Clusters
        /\ e.view = "sky" =>
              \A k \in (m + 1)..Len(frameLog) :
                  ~(frameLog[k].view = "sky" /\ frameLog[k].renderer = e.renderer
                        /\ frameLog[k].op # "calcPVS")
                  /\ (k = m + 1 => frameLog[k].op # "fill")

\* a frame in which calcPVS failed for the skybox view of a renderer and for
\* its main view, and the world was gathered from the filled bitmap
C11_Witness ==
    /\ fpc = "idle" /\ frames >= 1
    /\ view.main = InvalidCluster /\ view.sky = NoLeaf
    /\ \E m \in UnresolvedPVSCalls : frameLog[m].view = "sky"
    /\ \E m \in UnresolvedPVSCalls :
          /\ frameLog[m].view = "main"
          /\ \E k \in (m + 1)..Len(frameLog) :
                /\ frameLog[k].op = "gatherSurfaces"
                /\ frameLog[k].renderer = frameLog[m].renderer
                /\ frameLog[k].pvs = Clusters

\* ------------------------------------------------------------ Command_Shape
MaxDraws == 3

\* nArray(10, ...): the number of position-matrix slots
PosMtxSlots == 10
\* a matrix-table entry that leaves the slot as it is
MatrixSentinel == 65535

IntersectionStates == {"FULLY_INSIDE", "PARTIAL_INTERSECT", "FULLY_OUTSIDE"}
\* indices into shapeInstanceState.matrixArray / matrixVisibility
MatrixIndices == 0..1
\* the model-view matrices computeModelView may return
ModelViews == {"viewA", "viewB"}

Repeat(x, n) == [i \in 1..n |-> x]

\* shape.packets[p].matrixTable of the shapes of the model
Shapes ==
    << [packets |-> << <<0, 1>>, <<MatrixSentinel, 0>> >>],
       [packets |-> << Repeat(0, PosMtxSlots), <<1>> >>],
       [packets |-> << <<1, MatrixSentinel>>, <<MatrixSentinel, MatrixSentinel>>, <<0>> >>] >>

\* the local state of one draw() call
DrawState(s) ==
    [vis |-> posMtxVisibility, mtx |-> u_PosMtx[s], needsUpload |-> FALSE,
     returned |-> FALSE, log |-> <<>>]

\* the body of the matrix-table loop that treats the sentinel as index 0
loadPosMtx_NoSentinel(d, i, matrixIndex, modelView, matrixVisibility) ==
    LET k == IF matrixIndex = MatrixSentinel THEN 0 ELSE matrixIndex IN
    [d EXCEPT !.vis[i] = matrixVisibility[k],
              !.mtx[i] = <<modelView, k>>,
              !.needsUpload = TRUE]

\* the body of the matrix-table loop for slot i; mat4.mul(modelView, posMtx)
\* is kept as the pair of its factors
loadPosMtx(d, i, matrixIndex, modelView, matrixVisibility) ==
    IF matrixIndex = MatrixSentinel THEN d
    ELSE [d EXCEPT !.vis[i] = matrixVisibility[matrixIndex],
                   !.mtx[i] = <<modelView, matrixIndex>>,
                   !.needsUpload = TRUE]

RECURSIVE updateMatrixTable(_, _, _, _, _)
updateMatrixTable(d, matrixTable, i, modelView, matrixVisibility) ==
    IF i > Len(matrixTable) THEN d
    ELSE updateMatrixTable(loadPosMtx(d, i, matrixTable[i], modelView, matrixVisibility),
                           matrixTable, i + 1, modelView, matrixVisibility)

\* If all matrices are invisible, we can cull.
frustumCull(vis) == \A i \in 1..Len(vis) : vis[i] = "FULLY_OUTSIDE"

\* the rest of the packet loop body: d0 is the state before the table was
\* loaded, d the state after it
drawPacket(d0, d, p) ==
    IF frustumCull(d.vis)
    THEN [d EXCEPT !.returned = TRUE,
                   !.log = Append(@, [packet |-> p, drawn |-> FALSE, bound |-> FALSE,
                                      visBefore |-> d0.vis, mtxBefore |-> d0.mtx,
                                      vis |-> d.vis, mtx |-> d.mtx])]
    ELSE [d EXCEPT !.needsUpload = FALSE,
                   !.log = Append(@, [packet |-> p, drawn |-> TRUE, bound |-> d.needsUpload,
                                      visBefore |-> d0.vis, mtxBefore |-> d0.mtx,
                                      vis |-> d.vis, mtx |-> d.mtx])]

\* the packet loop of draw(); `return` ends it
RECURSIVE drawPackets(_, _, _, _, _)
drawPackets(d, packets, p, modelView, matrixVisibility) ==
    IF p > Len(packets) \/ d.returned THEN d
    ELSE drawPackets(drawPacket(d, updateMatrixTable(d, packets[p], 1, modelView,
                                                     matrixVisibility), p),
                     packets, p + 1, modelView, matrixVisibility)

KeepWorld == UNCHANGED <<esvars, frvars>>

\* Command_Shape.draw of shape s with the instance's matrix visibility
Command_Shape_draw ==
    /\ shapeDraws < MaxDraws
    /\ \E s \in 1..Len(Shapes), modelView \in ModelViews,
          matrixVisibility \in [MatrixIndices -> IntersectionStates] :
          \E d \in {drawPackets(DrawState(s), Shapes[s].packets, 1, modelView,
                                matrixVisibility)} :
             /\ posMtxVisibility' = d.vis
             /\ u_PosMtx' = [u_PosMtx EXCEPT ![s] = d.mtx]
             /\ drawCallCount' = IF d.returned THEN drawCallCount ELSE drawCallCount + 1
             /\ shapeLog' = [shape |-> s, modelView |-> modelView,
                             matrixVisibility |-> matrixVisibility,
                             visBefore |-> posMtxVisibility, packets |-> d.log]
    /\ shapeDraws' = shapeDraws + 1
    /\ KeepWorld
    /\ UNCHANGED shothers

NextShape == Command_Shape_draw

\* the model is loaded: every slot FULLY_INSIDE, every u_PosMtx the identity
InitShape ==
    /\ level = <<>> /\ InitSystem /\ NoRenderer /\ NoUnitsButShapes
    /\ posMtxVisibility = Repeat("FULLY_INSIDE", PosMtxSlots)
    /\ u_PosMtx = [s \in 1..Len(Shapes) |-> Repeat(<<>>, PosMtxSlots)]
    /\ drawCallCount = 0
    /\ shapeDraws = 0
    /\ shapeLog = [shape |-> 0, modelView |-> "", matrixVisibility |-> <<>>,
                   visBefore |-> <<>>, packets |-> <<>>]

SpecShape == InitShape /\ [][NextShape]_vars

\* history: the slot visibilities after a matrix table was loaded over vis
TableVisibility(vis, matrixTable, matrixVisibility) ==
    [i \in 1..Len(vis) |->
        IF i <= Len(matrixTable) /\ matrixTable[i] # MatrixSentinel
        THEN matrixVisibility[matrixTable[i]] ELSE vis[i]]

\* history: the slot visibilities of packet p, i.e. after the tables of the
\* packets 1..p were loaded
RECURSIVE SlotVisibility(_, _, _, _)
SlotVisibility(vis, packets, p, matrixVisibility) ==
    IF p = 0 THEN vis
    ELSE TableVisibility(SlotVisibility(vis, packets, p - 1, matrixVisibility),
                         packets[p], matrixVisibility)

LastPackets == Shapes[shapeLog.shape].packets

\* the slot visibilities of packet p of the last draw() call
VisibilityOf(p) ==
    SlotVisibility(shapeLog.visBefore, LastPackets, p, shapeLog.matrixVisibility)

AllOutside(vis) == \A i \in 1..Len(vis) : vis[i] = "FULLY_OUTSIDE"

\* packet p of the last draw() call reached drawSimple
Drawn(p) ==
    \E k \in 1..Len(shapeLog.packets) :
        shapeLog.packets[k].packet = p /\ shapeLog.packets[k].drawn

\* C12: a packet is skipped exactly when every slot's visibility for that
\* packet is FULLY_OUTSIDE; a packet with a slot that is not FULLY_OUTSIDE is
\* drawn whatever happened to earlier packets and earlier shapes.
C12_PacketDrawnIffVisible ==
    shapeDraws > 0 =>
        \A p \in 1..Len(LastPackets) : Drawn(p) <=> ~AllOutside(VisibilityOf(p))

\* what draw() does instead: the first packet whose slots are all
\* FULLY_OUTSIDE ends the draw, so exactly the packets before it are drawn
C12_DrawnUntilFirstCulled ==
    shapeDraws > 0 =>
        /\ \A p \in 1..Len(LastPackets) :
              Drawn(p) <=> \A q \in 1..p : ~AllOutside(VisibilityOf(q))
        /\ \A k \in 1..Len(shapeLog.packets) :
              shapeLog.packets[k].vis = VisibilityOf(shapeLog.packets[k].packet)

\* C18: a matrix-table entry 0xFFFF leaves its slot as it was, matrix and
\* visibility; a slot set by one packet and named by the sentinel in the
\* next packet still holds what the first packet wrote, in every draw.
C18_SentinelKeepsSlot ==
    shapeDraws > 0 =>
        \A k \in 1..Len(shapeLog.packets) :
            LET e == shapeLog.packets[k]
                table == LastPackets[e.packet]
            IN  \A i \in 1..Len(table) :
                    table[i] = MatrixSentinel =>
                        /\ e.vis[i] = e.visBefore[i]
                        /\ e.mtx[i] = e.mtxBefore[i]
                        /\ (e.packet > 1 /\ i <= Len(LastPackets[e.packet - 1])
                              /\ LastPackets[e.packet - 1][i] # MatrixSentinel) =>
                              /\ e.mtx[i] = <<shapeLog.modelView, LastPackets[e.packet - 1][i]>>
                              /\ e.vis[i] = shapeLog.matrixVisibility[LastPackets[e.packet - 1][i]]

\* a repeated draw of a shape whose second packet has the sentinel at index
\* 0: the slot was written in an earlier draw under another model-view
\* matrix and now holds what the first packet of this draw wrote
C18_Witness ==
    /\ shapeDraws >= 2
    /\ shapeLog.shape = 1
    /\ Len(shapeLog.packets) = 2
    /\ shapeLog.packets[2].drawn
    /\ LastPackets[2][1] = MatrixSentinel
    /\ shapeLog.packets[1].mtxBefore[1] # <<>>
    /\ shapeLog.packets[1].mtxBefore[1][1] # shapeLog.modelView
    /\ shapeLog.packets[2].mtx[1] = <<shapeLog.modelView, 0>>

\* ---------------------------------------------------------------------
\* BMDModel and BMDModelInstance: construction, rendering and destruction
\* ---------------------------------------------------------------------

MaxInstances == 3

InstanceIds == 1..MaxInstances

\* BMDModel.destroy: releases the buffers, the material and shape commands
\* and the samplers, once
BMDModel_destroy(m) ==
    IF ~m.realized THEN m
    ELSE [m EXCEPT !.resources = "released", !.realized = FALSE]

\* new BMDModelInstance(gl, textureHolder, bmdModel): a placement of the
\* shared asset; the owner does not place an asset it has torn down
BMDModelInstance_new ==
    /\ ~teardown
    /\ \E i \in InstanceIds :
          /\ modelInstances[i].state = "none"
          /\ modelInstances' = [modelInstances EXCEPT ![i] = [state |-> "live", visible |-> TRUE]]
    /\ UNCHANGED <<bmdModel, teardown, lastRender>>
    /\ KeepWorld
    /\ UNCHANGED bmothers

\* BMDModelInstance.setVisible
BMDModelInstance_setVisible ==
    /\ \E i \in InstanceIds, v \in BOOLEAN :
          /\ modelInstances[i].state = "live"
          /\ modelInstances' = [modelInstances EXCEPT ![i].visible = v]
    /\ UNCHANGED <<bmdModel, teardown, lastRender>>
    /\ KeepWorld
    /\ UNCHANGED bmothers

\* BMDModelInstance.destroy: calls this.bmdModel.destroy(gl), then destroys
\* the instance's own render helper
BMDModelInstance_destroy ==
    /\ \E i \in InstanceIds :
          /\ modelInstances[i].state = "live"
          /\ modelInstances' = [modelInstances EXCEPT ![i].state = "destroyed"]
    /\ bmdModel' = BMDModel_destroy(bmdModel)
    /\ UNCHANGED <<teardown, lastRender>>
    /\ KeepWorld
    /\ UNCHANGED bmothers

\* the owner of the asset calls BMDModel.destroy, once no placement is left
BMDModel_teardown ==
    /\ ~teardown
    /\ \A i \in InstanceIds : modelInstances[i].state # "live"
    /\ bmdModel' = BMDModel_destroy(bmdModel)
    /\ teardown' = TRUE
    /\ UNCHANGED <<modelInstances, lastRender>>
    /\ KeepWorld
    /\ UNCHANGED bmothers

\* BMDModelInstance.render: bindState returns false for an invisible
\* instance; otherwise the draw lists of the asset are drawn with the
\* asset's material and shape commands, whatever the asset's state
BMDModelInstance_render ==
    /\ \E i \in InstanceIds :
          /\ modelInstances[i].state = "live"
          /\ lastRender' = [inst |-> i, drawn |-> modelInstances[i].visible,
                            resources |-> bmdModel.resources]
    /\ UNCHANGED <<bmdModel, modelInstances, teardown>>
    /\ KeepWorld
    /\ UNCHANGED bmothers

NextModel ==
    \/ BMDModelInstance_new
    \/ BMDModelInstance_setVisible
    \/ BMDModelInstance_destroy
    \/ BMDModel_teardown
    \/ BMDModelInstance_render

\* the asset is constructed, no placement exists yet
InitModel ==
    /\ level = <<>> /\ InitSystem /\ NoRenderer /\ NoUnitsButModels
    /\ bmdModel = [realized |-> TRUE, resources |-> "allocated"]
    /\ modelInstances = [i \in InstanceIds |-> [state |-> "none", visible |-> TRUE]]
    /\ teardown = FALSE
    /\ lastRender = [inst |-> 0, drawn |-> FALSE, resources |-> "allocated"]

SpecModel == InitModel /\ [][NextModel]_vars

\* C13: destroying one placement does not tear down the shared asset: while
\* a placement is live the asset's resources exist, and no live placement
\* draws with a released asset.
C13_AssetOutlivesInstances ==
    /\ (\E i \in InstanceIds : modelInstances[i].state = "live") =>
          bmdModel.realized /\ bmdModel.resources = "allocated"
    /\ lastRender.drawn => lastRender.resources = "allocated"

\* what the code does instead: the asset is released by the first placement
\* that is destroyed
C13_ReleasedByFirstDestroy ==
    bmdModel.realized <=>
        /\ ~teardown
        /\ \A i \in InstanceIds : modelInstances[i].state # "destroyed"

\* ---------------------------------------------------------------------
\* BSPModelRenderer.gatherSurfaces: the walk over the BSP tree
\* ---------------------------------------------------------------------

\* model.headnode
HeadNode == 0

\* bsp.nodelist, indexed by nodeid >= 0; a child < 0 is the leaf -child-1
NodeList ==
    << [child0 |-> 1, child1 |-> -1],
       [child0 |-> -2, child1 |-> -3] >>

\* bsp.leaflist, indexed by leafnum; leaf 3 is referenced by no node
LeafList ==
    << [cluster |-> 1, surfaces |-> <<1>>],
       [cluster |-> 1, surfaces |-> <<2>>],
       [cluster |-> 0, surfaces |-> <<2, 3>>],
       [cluster |-> 0, surfaces |-> <<4>>] >>

NodeIds == 0..(Len(NodeList) - 1)
LeafNums == 0..(Len(LeafList) - 1)
SurfaceIds == 1..4
\* the leaves some node names as a child
TreeLeaves ==
    {l \in LeafNums : \E n \in NodeIds : -l - 1 \in {NodeList[n + 1].child0, NodeList[n + 1].child1}}

\* the bounding boxes the frustum is tested against: of a node, of a leaf
NodeBox(nodeid) == <<"node", nodeid>>
LeafBox(leafnum) == <<"leaf", leafnum>>
Boxes == {NodeBox(n) : n \in NodeIds} \cup {LeafBox(l) : l \in TreeLeaves}

Range(s) == {s[k] : k \in 1..Len(s)}

\* a Set<number> | null argument: <<>> is null, <<S>> is the set S
NullSet == <<>>
SetAdd(set, elems) == IF set = NullSet THEN set ELSE <<set[1] \cup elems>>

\* a leaf test without the PVS bit
leafVisible_NoPVS(pvs, frustum, leafnum) == LeafBox(leafnum) \in frustum

\* the two early returns of the leaf branch
leafVisible(pvs, frustum, leafnum) ==
    /\ LeafList[leafnum + 1].cluster \in pvs
    /\ LeafBox(leafnum) \in frustum

\* the leaf branch: add the leaf and its surfaces to the sets that are not null
gatherLeaf(g, pvs, frustum, leafnum) ==
    IF ~leafVisible(pvs, frustum, leafnum) THEN g
    ELSE [surfaces |-> SetAdd(g.surfaces, Range(LeafList[leafnum + 1].surfaces)),
          leaves |-> SetAdd(g.leaves, {leafnum})]

\* gatherSurfaces(liveSurfaceSet, liveLeafSet, pvs, view, nodeid)
RECURSIVE BSPModelRenderer_gatherSurfaces(_, _, _, _)
BSPModelRenderer_gatherSurfaces(g, pvs, frustum, nodeid) ==
    IF nodeid >= 0
    THEN IF NodeBox(nodeid) \notin frustum THEN g
         ELSE BSPModelRenderer_gatherSurfaces(
                  BSPModelRenderer_gatherSurfaces(g, pvs, frustum, NodeList[nodeid + 1].child0),
                  pvs, frustum, NodeList[nodeid + 1].child1)
    ELSE gatherLeaf(g, pvs, frustum, -nodeid - 1)

\* the caller's set, or null when the caller does not want it
Arg(want, set) == IF want THEN <<set>> ELSE NullSet
Result(arg, set) == IF arg = NullSet THEN set ELSE arg[1]

\* a caller gathers into its sets: both, one of them, or neither
GatherSurfaces ==
    /\ ~gatherLog.called
    /\ \E pvs \in SUBSET Clusters, frustum \in SUBSET Boxes,
          wantSurfaces \in BOOLEAN, wantLeaves \in BOOLEAN :
          \E g \in {BSPModelRenderer_gatherSurfaces(
                        [surfaces |-> Arg(wantSurfaces, outSurfaceSet),
                         leaves |-> Arg(wantLeaves, outLeafSet)],
                        pvs, frustum, HeadNode)} :
             /\ outSurfaceSet' = Result(g.surfaces, outSurfaceSet)
             /\ outLeafSet' = Result(g.leaves, outLeafSet)
             /\ gatherLog' = [called |-> TRUE, pvs |-> pvs, frustum |-> frustum,
                              wantSurfaces |-> wantSurfaces, wantLeaves |-> wantLeaves,
                              surfacesBefore |-> outSurfaceSet, leavesBefore |-> outLeafSet,
                              out |-> g]
    /\ KeepWorld
    /\ UNCHANGED gsothers

NextGather == GatherSurfaces

\* the caller's sets hold whatever the caller left in them
InitGather ==
    /\ level = <<>> /\ InitSystem /\ NoRenderer /\ NoUnitsButGather
    /\ outSurfaceSet \in SUBSET (SurfaceIds \ {4})
    /\ outLeafSet \in SUBSET TreeLeaves
    /\ gatherLog = [called |-> FALSE, pvs |-> {}, frustum |-> {},
                    wantSurfaces |-> FALSE, wantLeaves |-> FALSE,
                    surfacesBefore |-> {}, leavesBefore |-> {},
                    out |-> [surfaces |-> NullSet, leaves |-> NullSet]]

SpecGather == InitGather /\ [][NextGather]_vars

\* the node ids that name a node or leaf as a child, and the head node
IsChild(id, n) == NodeList[n + 1].child0 = id \/ NodeList[n + 1].child1 = id
InTree(id) == id = HeadNode \/ \E n \in NodeIds : IsChild(id, n)
ParentOf(id) == CHOOSE n \in NodeIds : IsChild(id, n)

\* the internal nodes on the path from the head node to id
RECURSIVE PathTo(_)
PathTo(id) ==
    IF id = HeadNode THEN {} ELSE {ParentOf(id)} \cup PathTo(ParentOf(id))

\* the leaves the claim says a call with the logged arguments adds
ExpectedLeaves ==
    {l \in LeafNums :
        /\ InTree(-l - 1)
        /\ \A n \in PathTo(-l - 1) : NodeBox(n) \in gatherLog.frustum
        /\ LeafList[l + 1].cluster \in gatherLog.pvs
        /\ LeafBox(l) \in gatherLog.frustum}

ExpectedSurfaces == UNION {Range(LeafList[l + 1].surfaces) : l \in ExpectedLeaves}

\* C14: gatherSurfaces adds exactly the leaves whose path nodes intersect the
\* frustum, whose cluster's PVS bit is set and whose own box intersects the
\* frustum, and exactly their surfaces; a null set is skipped and nothing is
\* removed from a set.
C14_GatherExactlyVisibleLeaves ==
    gatherLog.called =>
        /\ gatherLog.out.leaves =
              Arg(gatherLog.wantLeaves, gatherLog.leavesBefore \cup ExpectedLeaves)
        /\ gatherLog.out.surfaces =
              Arg(gatherLog.wantSurfaces, gatherLog.surfacesBefore \cup ExpectedSurfaces)

\* a call that adds to a leaf set that is not empty, with the surface set
\* null, where a leaf is kept out by a node on its path alone and another
\* leaf, whose box is in the frustum, has no PVS bit
C14_Witness ==
    /\ gatherLog.called
    /\ gatherLog.wantLeaves /\ ~gatherLog.wantSurfaces
    /\ gatherLog.out.surfaces = NullSet
    /\ gatherLog.leavesBefore # {}
    /\ ExpectedLeaves \ gatherLog.leavesBefore # {}
    /\ \E l \in LeafNums \ ExpectedLeaves :
          /\ LeafBox(l) \in gatherLog.frustum
          /\ LeafList[l + 1].cluster \in gatherLog.pvs
          /\ InTree(-l - 1)
    /\ \E l \in LeafNums \ ExpectedLeaves :
          /\ LeafBox(l) \in gatherLog.frustum
          /\ LeafList[l + 1].cluster \notin gatherLog.pvs

\* ---------------------------------------------------------------------
\* BSPModelRenderer.bindMaterials: one request per texture name, resolved
\* in any order, then bound to the surfaces
\* ---------------------------------------------------------------------

NumSurfaces == 3
TexNames == {"brick", "glass", "metal"}
SurfaceIndices == 1..NumSurfaces

\* materialInstance === null
NullMaterial == <<>>

\* [...texNames] of the Set the surfaces' names are added to in surface
\* order: every name once, in order of first use
RECURSIVE gatherTexNames(_, _, _)
gatherTexNames(names, i, texNames) ==
    IF i > Len(names) THEN texNames
    ELSE gatherTexNames(names, i + 1,
             IF \E k \in 1..Len(texNames) : texNames[k] = names[i]
             THEN texNames ELSE Append(texNames, names[i]))

\* a lookup that takes the first resolved pair whatever its name
findMaterialInstance_First(materialInstances, texName) == materialInstances[1]

\* materialInstances.find(([texName]) => surface.surface.texName === texName)
findMaterialInstance(materialInstances, texName) ==
    materialInstances[CHOOSE k \in 1..Len(materialInstances) :
        /\ materialInstances[k].texName = texName
        /\ \A j \in 1..(k - 1) : materialInstances[j].texName # texName]

\* the constructor calls bindMaterials, which runs up to its await: one
\* createMaterialInstance call per gathered name
bindMaterials ==
    /\ bindPc = "new"
    /\ \E names \in {gatherTexNames(surfaceTexNames, 1, <<>>)} :
          /\ materialRequests' = names
          /\ resolved' = [k \in 1..Len(names) |-> <<>>]
    /\ bindPc' = "requested"
    /\ UNCHANGED <<surfaceTexNames, modelEntity, resolveOrder, surfaceMaterial>>
    /\ KeepWorld
    /\ UNCHANGED mbothers

\* createEntities, in the same turn as the constructor: an entity whose
\* model is this BSP model calls setEntity; no surface is bound yet
setEntity ==
    /\ bindPc = "requested"
    /\ modelEntity' = 1
    /\ surfaceMaterial' = [s \in SurfaceIndices |->
          IF surfaceMaterial[s] # NullMaterial
          THEN [surfaceMaterial[s] EXCEPT !.entityParams = 1]
          ELSE surfaceMaterial[s]]
    /\ bindPc' = "waiting"
    /\ UNCHANGED <<surfaceTexNames, materialRequests, resolved, resolveOrder>>
    /\ KeepWorld
    /\ UNCHANGED mbothers

\* createEntities when no entity names this model (the world model)
createEntities_NoEntity ==
    /\ bindPc = "requested"
    /\ bindPc' = "waiting"
    /\ UNCHANGED <<surfaceTexNames, modelEntity, materialRequests, resolved,
                   resolveOrder, surfaceMaterial>>
    /\ KeepWorld
    /\ UNCHANGED mbothers

\* a callback that leaves the new instance without entity parameters
materialInstanceFor_NoEntity(texName, instance, entity) ==
    [texName |-> texName, instance |-> instance, entityParams |-> 0]

\* the callback of one request: the pair of the name and the new instance,
\* which gets the entity's materialParams if (this.entity !== null)
materialInstanceFor(texName, instance, entity) ==
    [texName |-> texName, instance |-> instance, entityParams |-> entity]

\* one createMaterialInstance promise resolves with a new instance; the
\* callback sets its entityParams when the model has an entity
createMaterialInstance_resolve ==
    /\ bindPc = "waiting"
    /\ \E k \in 1..Len(resolved) :
          /\ resolved[k] = <<>>
          /\ resolved' = [resolved EXCEPT ![k] =
                materialInstanceFor(materialRequests[k], Len(resolveOrder) + 1, modelEntity)]
          /\ resolveOrder' = Append(resolveOrder, k)
    /\ UNCHANGED <<surfaceTexNames, bindPc, modelEntity, materialRequests, surfaceMaterial>>
    /\ KeepWorld
    /\ UNCHANGED mbothers

\* Promise.all has resolved: every surface is bound to the pair found for
\* its name
bindMaterials_bind ==
    /\ bindPc = "waiting"
    /\ \A k \in 1..Len(resolved) : resolved[k] # <<>>
    /\ surfaceMaterial' = [s \in SurfaceIndices |->
          findMaterialInstance(resolved, surfaceTexNames[s])]
    /\ bindPc' = "bound"
    /\ UNCHANGED <<surfaceTexNames, modelEntity, materialRequests, resolved, resolveOrder>>
    /\ KeepWorld
    /\ UNCHANGED mbothers

NextBinding ==
    \/ bindMaterials
    \/ setEntity
    \/ createEntities_NoEntity
    \/ createMaterialInstance_resolve
    \/ bindMaterials_bind

\* the surfaces of the model are created, no material is bound
InitBinding ==
    /\ level = <<>> /\ InitSystem /\ NoRenderer /\ NoUnitsButBinding
    /\ surfaceTexNames \in [SurfaceIndices -> TexNames]
    /\ bindPc = "new"
    /\ modelEntity = 0
    /\ materialRequests = <<>>
    /\ resolved = <<>>
    /\ resolveOrder = <<>>
    /\ surfaceMaterial = [s \in SurfaceIndices |-> NullMaterial]

SpecBinding == InitBinding /\ [][NextBinding]_vars

\* the requests made for a texture name
RequestsFor(texName) == {k \in 1..Len(materialRequests) : materialRequests[k] = texName}

\* C15: bindMaterials requests exactly one instance per distinct texture
\* name; when binding has completed every surface holds the instance that
\* was requested for its own name, so equal names share an instance; this
\* holds for every order in which the requests resolve.
C15_OneInstancePerTexName ==
    /\ bindPc \in {"requested", "waiting", "bound"} =>
          /\ \A s \in SurfaceIndices : Cardinality(RequestsFor(surfaceTexNames[s])) = 1
          /\ \A k \in 1..Len(materialRequests) :
                \E s \in SurfaceIndices : surfaceTexNames[s] = materialRequests[k]
    /\ bindPc = "bound" =>
          /\ \A s \in SurfaceIndices :
                /\ surfaceMaterial[s] # NullMaterial
                /\ surfaceMaterial[s].texName = surfaceTexNames[s]
                /\ \A k \in RequestsFor(surfaceTexNames[s]) : surfaceMaterial[s] = resolved[k]
                /\ surfaceMaterial[s].entityParams = modelEntity
          /\ \A s, t \in SurfaceIndices :
                surfaceTexNames[s] = surfaceTexNames[t] <=>
                    surfaceMaterial[s].instance = surfaceMaterial[t].instance

\* binding completed for two surfaces of one name and a third of another,
\* with the second request resolved before the first
C15_Witness ==
    /\ bindPc = "bound"
    /\ Len(materialRequests) = 2
    /\ resolveOrder = <<2, 1>>
    /\ surfaceTexNames[1] = surfaceTexNames[3]
    /\ surfaceTexNames[1] # surfaceTexNames[2]
    /\ surfaceMaterial[2].instance = 1
    /\ modelEntity = 1

\* ---------------------------------------------------------------------
\* BSPSurfaceRenderer.prepareToRender while materials are being bound
\* ---------------------------------------------------------------------

\* pvs === null
NullPVS == <<>>

\* surface.bbox !== null; the last surface has no bounding box
hasBBox(s) == s # NumSurfaces
\* surface.isDisplacement; the first surface is one, with clusterset [0]
isDisplacement(s) == s = 1
clusterset(s) == {0}

\* materialInstance.isMaterialVisible(renderContext); on null it throws
isMaterialVisible(materialInstance, ready) ==
    IF materialInstance = NullMaterial THEN "error"
    ELSE IF ready[materialInstance.texName] THEN "visible" ELSE "hidden"

\* a first test that lets a surface without a material through
hasMaterial_Unchecked(visible, materialInstance) == visible

\* this.visible && this.materialInstance !== null
hasMaterial(visible, materialInstance) == visible /\ materialInstance # NullMaterial

\* the displacement check and the frustum check
culled(s, frustum, pvs) ==
    \/ pvs # NullPVS /\ clusterset(s) \cap pvs[1] = {}
    \/ hasBBox(s) /\ s \notin frustum

\* BSPSurfaceRenderer.prepareToRender: "submit" when a render inst is
\* submitted, "skip" on an early return, "error" when it throws
prepareToRender(s, visible, materialInstance, ready, frustum, pvs) ==
    IF ~hasMaterial(visible, materialInstance) THEN "skip"
    ELSE IF isMaterialVisible(materialInstance, ready) = "error" THEN "error"
    ELSE IF isMaterialVisible(materialInstance, ready) = "hidden" THEN "skip"
    ELSE IF culled(s, frustum, pvs) THEN "skip"
    ELSE "submit"

\* a material finishes loading, or its proxies show or hide it
Material_setVisible ==
    /\ \E k \in 1..Len(resolved), b \in BOOLEAN :
          /\ resolved[k] # <<>>
          /\ materialVisible[materialRequests[k]] # b
          /\ materialVisible' = [materialVisible EXCEPT ![materialRequests[k]] = b]
    /\ UNCHANGED <<surfaceVisible, surfaceFrame, skippedUnbound>>
    /\ KeepWorld
    /\ UNCHANGED sfothers

\* one frame: prepareToRender of every surface of the model, displacement
\* surfaces with the PVS when the model is the world
SurfaceFrame ==
    /\ bindPc \in {"waiting", "bound"}
    /\ \E frustum \in SUBSET {s \in SurfaceIndices : hasBBox(s)},
          pvs \in {NullPVS, <<{}>>, <<{0}>>} :
          \E outcome \in {[s \in SurfaceIndices |->
                 prepareToRender(s, surfaceVisible[s], surfaceMaterial[s], materialVisible,
                     frustum, IF isDisplacement(s) THEN pvs ELSE NullPVS)]} :
             /\ surfaceFrame' = [called |-> TRUE, frustum |-> frustum, pvs |-> pvs,
                                 material |-> surfaceMaterial, ready |-> materialVisible,
                                 outcome |-> outcome]
             /\ skippedUnbound' = skippedUnbound \cup
                   {s \in SurfaceIndices : surfaceMaterial[s] = NullMaterial /\ outcome[s] = "skip"}
    /\ UNCHANGED <<surfaceVisible, materialVisible>>
    /\ KeepWorld
    /\ UNCHANGED sfothers

NextSurface ==
    \/ NextBinding
    \/ Material_setVisible
    \/ SurfaceFrame

\* a model whose first and third surface share a texture name
InitSurface ==
    /\ level = <<>> /\ InitSystem /\ NoRenderer /\ NoUnitsButBindingAndSurfaces
    /\ surfaceTexNames = [s \in SurfaceIndices |-> IF s % 2 = 1 THEN "brick" ELSE "glass"]
    /\ bindPc = "new"
    /\ modelEntity = 0
    /\ materialRequests = <<>>
    /\ resolved = <<>>
    /\ resolveOrder = <<>>
    /\ surfaceMaterial = [s \in SurfaceIndices |-> NullMaterial]
    /\ surfaceVisible = [s \in SurfaceIndices |-> TRUE]
    /\ materialVisible = [n \in TexNames |-> FALSE]
    /\ surfaceFrame = [called |-> FALSE, frustum |-> {}, pvs |-> NullPVS,
                       material |-> <<>>, ready |-> <<>>, outcome |-> <<>>]
    /\ skippedUnbound = {}

SpecSurface == InitSurface /\ [][NextSurface]_vars

\* in the last frame: surface s had a material, and the material was visible
BoundIn(s) == surfaceFrame.material[s] # NullMaterial
ReadyIn(s) == BoundIn(s) /\ surfaceFrame.ready[surfaceFrame.material[s].texName]
\* in the last frame: the PVS and frustum arguments let surface s through
InViewIn(s) ==
    ~culled(s, surfaceFrame.frustum, IF isDisplacement(s) THEN surfaceFrame.pvs ELSE NullPVS)

MaxInsts == 3

\* const enum FilterKey { Skybox, Main, Translucent }
FilterKeys == {"Skybox", "Main", "Translucent"}

\* the passes render pushes, in the order it pushes them: debug name, and
\* the filter key of a pass that calls executeOnPass
PassList ==
    << [name |-> "Skybox", key |-> "Skybox"],
       [name |-> "Main", key |-> "Main"],
       [name |-> "Indirect", key |-> "Translucent"],
       [name |-> "Gamma Correct", key |-> "none"],
       [name |-> "Antialiasing", key |-> "none"],
       [name |-> "Present", key |-> "none"] >>

\* what prepareToRender submits: the view a render inst is made for, and
\* whether its material is translucent
Submissions == [view : {"skybox", "main"}, isTranslucent : BOOLEAN]

RECURSIVE SeqsUpTo(_, _)
SeqsUpTo(S, n) ==
    IF n = 0 THEN {<<>>}
    ELSE SeqsUpTo(S, n - 1) \cup
         {Append(q, x) : q \in {r \in SeqsUpTo(S, n - 1) : Len(r) = n - 1}, x \in S}

\* newRenderInst copies the template's filter key, FilterKey.Skybox while
\* the skybox view is prepared and FilterKey.Main for the main view; a
\* translucent material then sets FilterKey.Translucent
newRenderInst(sub) ==
    [filterKey |-> IF sub.isTranslucent THEN "Translucent"
                   ELSE IF sub.view = "skybox" THEN "Skybox" ELSE "Main",
     view |-> sub.view]

\* a filter that shows every submitted inst
setVisible_All(insts, filterKey) == 1..Len(insts)

\* renderInstManager.setVisibleByFilterKeyExact: the insts drawOnPassRenderer draws
setVisibleByFilterKeyExact(insts, filterKey) ==
    {i \in 1..Len(insts) : insts[i].filterKey = filterKey}

\* executeOnPass(passRenderer, filterKey)
executeOnPass(insts, filterKey) == setVisibleByFilterKeyExact(insts, filterKey)

\* render up to renderGraph.execute: the passes are pushed, then
\* prepareToRender submits the frame's render insts
SourceRenderer_render ==
    /\ rpc = "idle"
    /\ passes' = PassList
    /\ \E subs \in SeqsUpTo(Submissions, MaxInsts) :
          renderInsts' = [i \in 1..Len(subs) |-> newRenderInst(subs[i])]
    /\ passIndex' = 1
    /\ passLog' = <<>>
    /\ rpc' = "execute"
    /\ KeepWorld
    /\ UNCHANGED rpothers

\* renderGraph.execute runs the next pass's exec callback
executePass ==
    /\ rpc = "execute"
    /\ passLog' = Append(passLog,
          [name |-> passes[passIndex].name,
           drawn |-> IF passes[passIndex].key \in FilterKeys
                     THEN executeOnPass(renderInsts, passes[passIndex].key)
                     ELSE {}])
    /\ passIndex' = passIndex + 1
    /\ rpc' = IF passIndex = Len(passes) THEN "reset" ELSE "execute"
    /\ UNCHANGED <<passes, renderInsts>>
    /\ KeepWorld
    /\ UNCHANGED rpothers

\* renderInstManager.resetRenderInsts ends the frame
resetRenderInsts ==
    /\ rpc = "reset"
    /\ renderInsts' = <<>>
    /\ rpc' = "idle"
    /\ UNCHANGED <<passes, passIndex, passLog>>
    /\ KeepWorld
    /\ UNCHANGED rpothers

NextPasses == SourceRenderer_render \/ executePass \/ resetRenderInsts

InitPasses ==
    /\ level = <<>> /\ InitSystem /\ NoRenderer /\ NoUnitsButPasses
    /\ rpc = "idle"
    /\ passes = <<>>
    /\ passIndex = 0
    /\ renderInsts = <<>>
    /\ passLog = <<>>

SpecPasses == InitPasses /\ [][NextPasses]_vars

\* the order the claim fixes
PassOrder == <<"Skybox", "Main", "Indirect", "Gamma Correct", "Antialiasing", "Present">>
\* the geometry passes and their filter keys
GeometryKey(name) ==
    CASE name = "Skybox" -> "Skybox"
      [] name = "Main" -> "Main"
      [] name = "Indirect" -> "Translucent"
      [] OTHER -> "none"

ColorOverride_COUNT == 12
ColorRegisters == 0..(ColorOverride_COUNT - 1)
\* the registers the callers of this model override or animate:
\* ColorOverride.MAT0 and ColorOverride.C2
UsedRegisters == {0, ColorOverride_COUNT - 1}

\* material.texMatrices: slot 1 is null
TexMatrixSlots == 0..2
MaterialTexMatrices == [i \in TexMatrixSlots |-> IF i = 1 THEN <<>> ELSE <<"static", i>>]

\* colorOverrides[i] === undefined
Undefined == <<>>

\* the material's static color of register i, the color a caller overrides
\* with, and what trk1Animators[i].calcColorOverride writes
MaterialColor(i) == [rgb |-> <<"material", i>>, a |-> <<"material", i>>]
OverrideColor == [rgb |-> <<"override", 0>>, a |-> <<"override", 0>>]
TrackColor(i) == [rgb |-> <<"track", i>>, a |-> <<"track", i>>]

\* dst.copy(color, alpha)
Color_copy(color, alpha) == [rgb |-> color.rgb, a |-> alpha]

\* the sources fillMaterialInstanceState reads
MaterialSources ==
    [modelInstance |-> hasModelInstance, trk1 |-> trk1Animators, ttk1 |-> ttk1Animators,
     colorOverrides |-> colorOverrides, alphaOverrides |-> alphaOverrides]

\* the color and the alpha copyColor picks when no track is bound
overrideColor(src, i, fallbackColor) ==
    IF src.modelInstance /\ src.colorOverrides[i] # Undefined
    THEN src.colorOverrides[i] ELSE fallbackColor

overrideAlpha(src, i, color, fallbackColor) ==
    IF src.modelInstance /\ src.alphaOverrides[i] THEN color.a ELSE fallbackColor.a

\* a copyColor that lets an instance override win over a bound track
copyColor_OverrideFirst(src, i, fallbackColor) ==
    IF src.modelInstance /\ src.colorOverrides[i] # Undefined
    THEN Color_copy(src.colorOverrides[i],
                    overrideAlpha(src, i, src.colorOverrides[i], fallbackColor))
    ELSE IF src.trk1[i] THEN TrackColor(i) ELSE fallbackColor

\* copyColor(i, fallbackColor): the value written to materialInstanceState.colors[i]
copyColor(src, i, fallbackColor) ==
    IF src.trk1[i] THEN TrackColor(i)
    ELSE Color_copy(overrideColor(src, i, fallbackColor),
                    overrideAlpha(src, i, overrideColor(src, i, fallbackColor), fallbackColor))

\* the texture matrix loop: a null slot keeps what dst held
computeTexMatrix(src, i, dst) ==
    IF MaterialTexMatrices[i] = <<>> THEN dst
    ELSE IF src.ttk1[i] THEN <<"track", i>>
    ELSE MaterialTexMatrices[i]

\* MaterialInstance.fillMaterialInstanceState(materialInstanceState)
fillMaterialInstanceState ==
    /\ \E src \in {MaterialSources} :
          /\ materialInstanceState' =
                [colors |-> [i \in ColorRegisters |-> copyColor(src, i, MaterialColor(i))],
                 texMatrices |-> [i \in TexMatrixSlots |->
                     computeTexMatrix(src, i, materialInstanceState.texMatrices[i])]]
          /\ fillLog' = [filled |-> TRUE, src |-> src]
    /\ UNCHANGED <<hasModelInstance, trk1Animators, ttk1Animators, colorOverrides, alphaOverrides>>
    /\ KeepWorld
    /\ UNCHANGED miothers

\* BMDModelInstance.setColorOverride(i, color, useAlpha)
setColorOverride ==
    /\ hasModelInstance
    /\ \E i \in UsedRegisters, useAlpha \in BOOLEAN :
          /\ colorOverrides' = [colorOverrides EXCEPT ![i] = OverrideColor]
          /\ alphaOverrides' = [alphaOverrides EXCEPT ![i] = useAlpha]
    /\ UNCHANGED <<hasModelInstance, trk1Animators, ttk1Animators, materialInstanceState, fillLog>>
    /\ KeepWorld
    /\ UNCHANGED miothers

\* MaterialInstance.bindTRK1: an animator for every register the TRK1 has a
\* track for; the others keep the animator they had
bindTRK1 ==
    /\ \E trk1 \in SUBSET UsedRegisters :
          trk1Animators' = [i \in ColorRegisters |-> trk1Animators[i] \/ i \in trk1]
    /\ UNCHANGED <<hasModelInstance, ttk1Animators, colorOverrides, alphaOverrides,
                   materialInstanceState, fillLog>>
    /\ KeepWorld
    /\ UNCHANGED miothers

\* MaterialInstance.bindTTK1, likewise per texture matrix slot
bindTTK1 ==
    /\ \E ttk1 \in SUBSET TexMatrixSlots :
          ttk1Animators' = [i \in TexMatrixSlots |-> ttk1Animators[i] \/ i \in ttk1]
    /\ UNCHANGED <<hasModelInstance, trk1Animators, colorOverrides, alphaOverrides,
                   materialInstanceState, fillLog>>
    /\ KeepWorld
    /\ UNCHANGED miothers

NextMaterial == fillMaterialInstanceState \/ setColorOverride \/ bindTRK1 \/ bindTTK1

\* a material instance, of a model instance or without one, just made
InitMaterial ==
    /\ level = <<>> /\ InitSystem /\ NoRenderer /\ NoUnitsButMaterials
    /\ hasModelInstance \in BOOLEAN
    /\ trk1Animators = [i \in ColorRegisters |-> FALSE]
    /\ ttk1Animators = [i \in TexMatrixSlots |-> FALSE]
    /\ colorOverrides = [i \in ColorRegisters |-> Undefined]
    /\ alphaOverrides = [i \in ColorRegisters |-> FALSE]
    /\ materialInstanceState =
          [colors |-> [i \in ColorRegisters |-> [rgb |-> <<"new", i>>, a |-> <<"new", i>>]],
           texMatrices |-> [i \in TexMatrixSlots |-> <<"identity">>]]
    /\ fillLog = [filled |-> FALSE, src |-> <<>>]

SpecMaterial == InitMaterial /\ [][NextMaterial]_vars

\* at the last fill: register i had an instance-level override
OverriddenIn(i) == fillLog.src.modelInstance /\ fillLog.src.colorOverrides[i] # Undefined

\* C19: a color register comes from its animation track if one is bound,
\* else from the instance override if one is set, with the override's alpha
\* only when it was set with useAlpha and the material's alpha otherwise,
\* else from the material's default; a texture matrix of the material comes
\* from its track if bound and from the static matrix otherwise.
C19_SourcePriority ==
    fillLog.filled =>
        /\ \A i \in ColorRegisters :
              LET c == materialInstanceState.colors[i]
              IN  /\ fillLog.src.trk1[i] => c = TrackColor(i)
                  /\ (~fillLog.src.trk1[i] /\ OverriddenIn(i)) =>
                        /\ c.rgb = OverrideColor.rgb
                        /\ c.a = IF fillLog.src.alphaOverrides[i]
                                 THEN OverrideColor.a ELSE MaterialColor(i).a
                  /\ (~fillLog.src.trk1[i] /\ ~OverriddenIn(i)) => c = MaterialColor(i)
        /\ \A i \in TexMatrixSlots :
              MaterialTexMatrices[i] # <<>> =>
                  materialInstanceState.texMatrices[i] =
                      IF fillLog.src.ttk1[i] THEN <<"track", i>> ELSE MaterialTexMatrices[i]

\* a fill where one register has both a track and an override, another an
\* override set without useAlpha, one texture matrix a track and one none
C19_Witness ==
    /\ fillLog.filled
    /\ fillLog.src.trk1[0] /\ OverriddenIn(0)
    /\ ~fillLog.src.trk1[ColorOverride_COUNT - 1] /\ OverriddenIn(ColorOverride_COUNT - 1)
    /\ ~fillLog.src.alphaOverrides[ColorOverride_COUNT - 1]
    /\ materialInstanceState.colors[ColorOverride_COUNT - 1].rgb = OverrideColor.rgb
    /\ fillLog.src.ttk1[0] /\ ~fillLog.src.ttk1[2]

\* ---------------------------------------------------------------------
\* BMDModelInstance.updateJointMatrixHierarchy
\* ---------------------------------------------------------------------

\* inf1.sceneGraph: node 1 is the root; a Joint node names its bone
SceneGraph ==
    << [type |-> "Open", jointIdx |-> -1, children |-> <<2, 7>>],
       [type |-> "Joint", jointIdx |-> 0, children |-> <<3, 4>>],
       [type |-> "Material", jointIdx |-> -1, children |-> <<5, 8>>],
       [type |-> "Joint", jointIdx |-> 1, children |-> <<6>>],
       [type |-> "Joint", jointIdx |-> 2, children |-> <<>>],
       [type |-> "Joint", jointIdx |-> 3, children |-> <<>>],
       [type |-> "Joint", jointIdx |-> 4, children |-> <<>>],
       [type |-> "Shape", jointIdx |-> -1, children |-> <<>>] >>

RootNode == 1
\* jnt1.bones
Bones == 0..4

\* a matrix is the sequence of the matrices it is the product of
mat4_identity == <<>>
\* jnt1.bones[jointIndex].matrix, and what calcJointMatrix writes
BindMatrix(jointIndex) == << <<"bind", jointIndex>> >>
AnimatedMatrix(jointIndex) == << <<"animated", jointIndex>> >>

\* a product with its factors swapped
mat4_mul_Swapped(a, b) == b \o a

\* mat4.mul(out, a, b): out = a * b
mat4_mul(a, b) == a \o b

\* ank1Animator !== null && ank1Animator.calcJointMatrix(matrixScratch2, jointIndex)
calcJointMatrix(animator, jointIndex) == animator # <<>> /\ jointIndex \in animator[1]

boneMatrix(animator, jointIndex) ==
    IF calcJointMatrix(animator, jointIndex)
    THEN AnimatedMatrix(jointIndex) ELSE BindMatrix(jointIndex)

\* updateJointMatrixHierarchy(state, node, parentJointMatrix) on the walk
\* state j: the joint matrices and the joint visibilities
RECURSIVE updateJointMatrixHierarchy(_, _, _, _, _)
RECURSIVE updateChildren(_, _, _, _, _, _)
updateJointMatrixHierarchy(j, animator, frustum, node, parentJointMatrix) ==
    IF SceneGraph[node].type = "Joint"
    THEN updateChildren(
             [matrices |-> [j.matrices EXCEPT ![SceneGraph[node].jointIdx] =
                  mat4_mul(parentJointMatrix, boneMatrix(animator, SceneGraph[node].jointIdx))],
              visibility |-> [j.visibility EXCEPT ![SceneGraph[node].jointIdx] =
                  frustum[SceneGraph[node].jointIdx]]],
             animator, frustum, SceneGraph[node].children, 1,
             mat4_mul(parentJointMatrix, boneMatrix(animator, SceneGraph[node].jointIdx)))
    ELSE updateChildren(j, animator, frustum, SceneGraph[node].children, 1, parentJointMatrix)

updateChildren(j, animator, frustum, children, i, parentJointMatrix) ==
    IF i > Len(children) THEN j
    ELSE updateChildren(
             updateJointMatrixHierarchy(j, animator, frustum, children[i], parentJointMatrix),
             animator, frustum, children, i + 1, parentJointMatrix)

\* state.camera.frustum.intersect of the joints' boxes in a frame
FrustumResults ==
    {[b \in Bones |-> "FULLY_INSIDE"],
     [b \in Bones |-> IF b = 0 THEN "FULLY_OUTSIDE" ELSE "PARTIAL_INTERSECT"]}

\* BMDModelInstance.bindANK1: the animator is replaced
bindANK1 ==
    /\ \E tracks \in SUBSET Bones : ank1Animator' = <<tracks>>
    /\ UNCHANGED <<jointMatrices, jointVisibility, matrixArray, instMatrixVisibility, jointLog>>
    /\ KeepWorld
    /\ UNCHANGED jhothers

\* drw1.drw1Joints: the entries of the matrix array
Drw1Joints ==
    << [kind |-> "NormalJoint", jointIndex |-> 0, envelopeIndex |-> -1],
       [kind |-> "WeightedJoint", jointIndex |-> -1, envelopeIndex |-> 0],
       [kind |-> "NormalJoint", jointIndex |-> 3, envelopeIndex |-> -1],
       [kind |-> "WeightedJoint", jointIndex |-> -1, envelopeIndex |-> 1],
       [kind |-> "NormalJoint", jointIndex |-> 3, envelopeIndex |-> -1] >>

\* evp1.envelopes[k].weightedBones
Envelopes ==
    << << [index |-> 0, weight |-> 1] >>,
       << [index |-> 1, weight |-> 1], [index |-> 3, weight |-> 2] >> >>

\* evp1.inverseBinds[index]
InverseBind(index) == << <<"inverseBind", index>> >>

\* dst.fill(0): the empty sum
mat4_zero == [sum |-> <<>>]

\* mat4.multiplyScalarAndAdd(out, a, b, scale): out = a + b * scale
mat4_multiplyScalarAndAdd(a, b, scale) == [sum |-> Append(a.sum, <<scale, b>>)]

\* the loop over envelope.weightedBones, from bone k on
RECURSIVE blendEnvelope(_, _, _, _)
blendEnvelope(dst, matrices, weightedBones, k) ==
    IF k > Len(weightedBones) THEN dst
    ELSE blendEnvelope(
             mat4_multiplyScalarAndAdd(dst,
                 mat4_mul(matrices[weightedBones[k].index], InverseBind(weightedBones[k].index)),
                 weightedBones[k].weight),
             matrices, weightedBones, k + 1)

\* a matrix array update that culls a weighted entry as its first bone
updateDrw1Joint_CulledAsFirstBone(joint, matrices, visibility, old) ==
    IF joint.kind = "NormalJoint"
    THEN [matrix |-> matrices[joint.jointIndex], visibility |-> visibility[joint.jointIndex]]
    ELSE IF joint.kind = "WeightedJoint"
    THEN [matrix |-> blendEnvelope(mat4_zero, matrices, Envelopes[joint.envelopeIndex + 1], 1),
          visibility |-> visibility[Envelopes[joint.envelopeIndex + 1][1].index]]
    ELSE old

\* the body of the loop over drw1.drw1Joints: entry i of matrixArray and
\* of matrixVisibility
updateDrw1Joint(joint, matrices, visibility, old) ==
    IF joint.kind = "NormalJoint"
    THEN [matrix |-> matrices[joint.jointIndex], visibility |-> visibility[joint.jointIndex]]
    ELSE IF joint.kind = "WeightedJoint"
    THEN [matrix |-> blendEnvelope(mat4_zero, matrices, Envelopes[joint.envelopeIndex + 1], 1),
          visibility |-> "FULLY_INSIDE"]
    ELSE old

\* updateMatrixArray: the walk from the scene graph's root under the
\* identity, then the matrix array from the joint matrices
updateMatrixArray ==
    /\ \E frustum \in FrustumResults :
          \E j \in {updateJointMatrixHierarchy(
                        [matrices |-> jointMatrices, visibility |-> jointVisibility],
                        ank1Animator, frustum, RootNode, mat4_identity)} :
             /\ jointMatrices' = j.matrices
             /\ jointVisibility' = j.visibility
             /\ \E arr \in {[i \in 1..Len(Drw1Joints) |->
                                updateDrw1Joint(Drw1Joints[i], j.matrices, j.visibility,
                                    [matrix |-> matrixArray[i],
                                     visibility |-> instMatrixVisibility[i]])]} :
                   /\ matrixArray' = [i \in 1..Len(Drw1Joints) |-> arr[i].matrix]
                   /\ instMatrixVisibility' = [i \in 1..Len(Drw1Joints) |-> arr[i].visibility]
             /\ jointLog' = [walked |-> TRUE, animator |-> ank1Animator, frustum |-> frustum]
    /\ UNCHANGED ank1Animator
    /\ KeepWorld
    /\ UNCHANGED jhothers

NextJoints == bindANK1 \/ updateMatrixArray

\* a new model instance: identity joint matrices, no animator
InitJoints ==
    /\ level = <<>> /\ InitSystem /\ NoRenderer /\ NoUnitsButJoints
    /\ ank1Animator = <<>>
    /\ jointMatrices = [b \in Bones |-> mat4_identity]
    /\ jointVisibility = [b \in Bones |-> "FULLY_INSIDE"]
    /\ matrixArray = [i \in 1..Len(Drw1Joints) |-> mat4_identity]
    /\ instMatrixVisibility = [i \in 1..Len(Drw1Joints) |-> "FULLY_INSIDE"]
    /\ jointLog = [walked |-> FALSE, animator |-> <<>>, frustum |-> <<>>]

SpecJoints == InitJoints /\ [][NextJoints]_vars

\* the scene graph node above a node, and the node of a joint
NodeIndices == 1..Len(SceneGraph)
ParentNode(n) ==
    CHOOSE p \in NodeIndices : \E k \in 1..Len(SceneGraph[p].children) : SceneGraph[p].children[k] = n
JointNode(b) ==
    CHOOSE n \in NodeIndices : SceneGraph[n].type = "Joint" /\ SceneGraph[n].jointIdx = b

\* the joints on the way from the root to node n, n included, root first
RECURSIVE JointPath(_)
JointPath(n) ==
    (IF n = RootNode THEN <<>> ELSE JointPath(ParentNode(n)))
        \o (IF SceneGraph[n].type = "Joint" THEN <<SceneGraph[n].jointIdx>> ELSE <<>>)

\* the local matrix of a joint at the last walk
LocalIn(b) ==
    IF jointLog.animator # <<>> /\ b \in jointLog.animator[1]
    THEN <<"animated", b>> ELSE <<"bind", b>>

\* C20: after a walk every joint's world matrix is the ordered product of
\* the local matrices of its joint ancestors and itself, a local matrix
\* being the animated one when the animator supplies it and the bind matrix
\* otherwise; the root's parent is the identity and nodes that are not
\* joints hand their parent's matrix on.
C20_WorldIsProductOfLocals ==
    jointLog.walked =>
        \A b \in Bones :
            /\ jointMatrices[b] =
                  [k \in 1..Len(JointPath(JointNode(b))) |-> LocalIn(JointPath(JointNode(b))[k])]
            /\ jointVisibility[b] = jointLog.frustum[b]

\* a walk with some joints animated and some not: a joint three deep, a
\* joint below a material node, and a second joint at the root
C20_Witness ==
    /\ jointLog.walked
    /\ jointMatrices[3] = << <<"animated", 0>>, <<"bind", 1>>, <<"animated", 3>> >>
    /\ jointMatrices[2] = << <<"animated", 0>>, <<"bind", 2>> >>
    /\ jointMatrices[4] = << <<"bind", 4>> >>

\* ------------------------------------------------- claims on the event loop
\* the entities of a name that do not register the input
Unregistered(targetName, inputName) ==
    {i \in 1..Len(entities) :
        /\ entities[i].targetName = targetName
        /\ inputName \notin RegisteredInputs(entities[i].classname)}

\* C21: an input that its target does not register changes no entity and
\* nothing of the queue and fires no output, and the dispatch goes on: the
\* event still reaches every entity of its name, in order, and leaves the queue
C21_UnknownInputIsIgnored ==
    /\ \A k \in 1..Len(stepInputs) :
          ~stepInputs[k].known =>
              /\ stepInputs[k].post = stepInputs[k].pre
              /\ stepInputs[k].queuePost = stepInputs[k].queuePre
              /\ stepInputs[k].fired = <<>>
    /\ \A id \in 1..Len(evlog) :
          (/\ evlog[id].ndisp >= 1
           /\ Unregistered(evlog[id].action.targetName, evlog[id].action.inputName) # {})
              => /\ evlog[id].targets = MatchingEntities(evlog[id].action.targetName)
                 /\ Occurrences(id) = 0

\* "open" reached the door and then the relay of the same name, which does not
\* register it; the event left the queue, and an event queued behind it was
\* dispatched later in the same drain
C21_Witness ==
    \E id \in 1..Len(evlog) : \E k \in 1..Len(stepInputs) :
        /\ evlog[id].ndisp = 1
        /\ Len(evlog[id].targets) = 2
        /\ evlog[id].targets[2] \in Unregistered(evlog[id].action.targetName,
                                                  evlog[id].action.inputName)
        /\ ~stepInputs[k].known
        /\ stepInputs[k].ent = evlog[id].targets[2]
        /\ pc = "drain"
        /\ \E id2 \in (id + 1)..Len(evlog) :
              /\ evlog[id2].ndisp = 1
              /\ evlog[id2].dispTime = evlog[id].dispTime
              /\ Len(evlog[id2].targets) >= 1

\* the world matrix of joint b at the last walk: the locals from the root down
WorldIn(b) ==
    [k \in 1..Len(JointPath(JointNode(b))) |-> LocalIn(JointPath(JointNode(b))[k])]

\* C22: after updateMatrixArray every NormalJoint entry of the matrix array
\* holds the world matrix and the frustum classification that the walk of the
\* same call gave the joint it names, and every WeightedJoint entry is
\* classified FULLY_INSIDE whatever the classifications of the joints it blends
\* (its matrix is the weighted sum of world matrix times inverse bind)
C22_MatrixArrayFollowsJoints ==
    jointLog.walked =>
        \A i \in 1..Len(Drw1Joints) :
            /\ Drw1Joints[i].kind = "NormalJoint" =>
                  /\ matrixArray[i] = WorldIn(Drw1Joints[i].jointIndex)
                  /\ matrixArray[i] = jointMatrices[Drw1Joints[i].jointIndex]
                  /\ instMatrixVisibility[i] = jointLog.frustum[Drw1Joints[i].jointIndex]
            /\ Drw1Joints[i].kind = "WeightedJoint" =>
                  /\ instMatrixVisibility[i] = "FULLY_INSIDE"
                  /\ matrixArray[i].sum =
                        [k \in 1..Len(Envelopes[Drw1Joints[i].envelopeIndex + 1]) |->
                            << Envelopes[Drw1Joints[i].envelopeIndex + 1][k].weight,
                               WorldIn(Envelopes[Drw1Joints[i].envelopeIndex + 1][k].index)
                                  \o InverseBind(Envelopes[Drw1Joints[i].envelopeIndex + 1][k].index) >>]

\* a walk that found joint 0 outside the frustum: the direct entry of joint 0
\* is outside, the weighted entry that blends only joint 0 is inside, and a
\* direct entry holds an animated joint three deep
C22_Witness ==
    /\ jointLog.walked
    /\ jointLog.frustum[0] = "FULLY_OUTSIDE"
    /\ instMatrixVisibility[1] = "FULLY_OUTSIDE"
    /\ instMatrixVisibility[2] = "FULLY_INSIDE"
    /\ instMatrixVisibility[3] = "PARTIAL_INTERSECT"
    /\ matrixArray[3] = << <<"bind", 0>>, <<"animated", 1>>, <<"animated", 3>> >>
    /\ Len(matrixArray[4].sum) = 2

\* ---------------------------------------------------------------------
\* a relay that triggers itself
\* ---------------------------------------------------------------------
\* logic_auto starts a logic_relay whose OnTrigger triggers the relay again
\* after delay d
LevelRelay(d) ==
    << [BSPEntity("logic_auto", "") EXCEPT
          !.outputs = ("onmapspawn" :> << EntityOutputAction("relay", "trigger", "", 0) >>)
                      @@ NoOutputs],
       [BSPEntity("logic_relay", "relay") EXCEPT
          !.outputs = ("ontrigger" :> << EntityOutputAction("relay", "trigger", "", d) >>)
                      @@ NoOutputs] >>

LevelsRelay == {LevelRelay(d) : d \in 0..MaxDelay}

InitRelay == level \in LevelsRelay /\ InitSystem /\ NoRenderer /\ NoUnits

\* movement() runs processOutputQueue to its end: a loop step that can be
\* taken is taken
SpecRelay ==
    /\ InitRelay /\ [][Next]_vars
    /\ WF_vars(ProcessOutputQueueStep) /\ WF_vars(ProcessOutputQueueDone)

\* C23: every drain of the output queue terminates, also when the input
\* handlers enqueue zero-delay events during the drain: a drain that has
\* started reaches the loop over the entities
C23_DrainTerminates == (pc = "drain") ~> (pc = "move")

\* the relay's zero-delay event is dispatched and enqueued again in the same
\* drain: once the relay has triggered itself, the loop test of
\* processOutputQueue is true after every step, with a due event under it
C23_SelfTriggerKeepsLoopTest ==
    (/\ level = LevelRelay(0)
     /\ pc = "drain")
        => /\ DrainContinues(outputQueue, qi)
           /\ outputQueue[qi].triggerTime <= currentTime
           /\ Len(outputQueue) = 1

\* ---------------------------------------------------------------------
\* a trigger_once that is disabled while the player stands in it
\* ---------------------------------------------------------------------
\* the trigger_once disables itself when it triggers; a trigger_multiple
\* next to it enables it again
LevelOnce ==
    << [BSPEntity("trigger_once", "once") EXCEPT
          !.model = TRUE, !.volume = {1},
          !.outputs = ("ontrigger" :> << EntityOutputAction("lamp", "turnon", "", 0),
                                         EntityOutputAction("once", "disable", "", 0) >>)
                      @@ NoOutputs],
       [BSPEntity("trigger_multiple", "trig") EXCEPT
          !.model = TRUE, !.volume = {2},
          !.outputs = ("ontrigger" :> << EntityOutputAction("once", "enable", "", 0) >>)
                      @@ NoOutputs] >>

InitOnce == level = LevelOnce /\ InitSystem /\ NoRenderer /\ NoUnits
SpecOnce == InitOnce /\ [][Next]_vars

\* the events that the OnTrigger output of the trigger_once has enqueued
OnceTriggerEvents ==
    {id \in 1..Len(evlog) : evlog[id].action = EntityOutputAction("lamp", "turnon", "", 0)}

\* C24: a trigger_once fires OnTrigger at most once over its lifetime,
\* whatever the sequence of the player entering and leaving and of enable
\* and disable inputs
C24_TriggerOnceFiresOnce == Cardinality(OnceTriggerEvents) <= 1

\* the trigger_once is removed by onUnTouch alone, which runs only when the
\* player leaves an enabled trigger: one that has fired and is still alive
\* is one the player has not left while it was enabled
C24_RemovedOnlyOnEnabledLeave ==
    [][\A i \in 1..Len(entities) :
          (/\ i <= Len(entities')
           /\ entities[i].classname = "trigger_once"
           /\ entities[i].alive /\ ~entities'[i].alive)
              => /\ entities[i].enabled
                 /\ entities[i].isPlayerTouching /\ ~entities'[i].isPlayerTouching]_vars

\* ------------------------------------------------------ claims on the door
\* the toggle inputs delivered in the current step to a door that is not locked
ToggleInputs ==
    {k \in 1..Len(stepInputs) :
        /\ stepInputs[k].inputName = "toggle"
        /\ stepInputs[k].pre[stepInputs[k].ent].classname = "func_door"
        /\ ~stepInputs[k].pre[stepInputs[k].ent].locked}

\* C25: toggle reverses a door that is not locked: a door at Top starts to
\* close (GoingToBottom, OnClose fired), a door at Bottom starts to open
\* (GoingToTop, OnOpen fired)
C25_ToggleReverses ==
    \A k \in ToggleInputs :
        /\ stepInputs[k].pre[stepInputs[k].ent].toggleState = "Top" =>
              /\ stepInputs[k].post[stepInputs[k].ent].toggleState = "GoingToBottom"
              /\ stepInputs[k].fired = <<"onclose">>
        /\ stepInputs[k].pre[stepInputs[k].ent].toggleState = "Bottom" =>
              /\ stepInputs[k].post[stepInputs[k].ent].toggleState = "GoingToTop"
              /\ stepInputs[k].fired = <<"onopen">>

\* what input_toggle does: it repeats the move the door has made, a door at
\* Top goes to the top and a door at Bottom goes to the bottom, and a moving
\* door is left alone
C25_ToggleRepeats ==
    \A k \in ToggleInputs :
        /\ stepInputs[k].pre[stepInputs[k].ent].toggleState = "Top" =>
              /\ stepInputs[k].post[stepInputs[k].ent].toggleState = "GoingToTop"
              /\ stepInputs[k].fired = <<"onopen">>
        /\ stepInputs[k].pre[stepInputs[k].ent].toggleState = "Bottom" =>
              /\ stepInputs[k].post[stepInputs[k].ent].toggleState = "GoingToBottom"
              /\ stepInputs[k].fired = <<"onclose">>
        /\ stepInputs[k].pre[stepInputs[k].ent].toggleState \in {"GoingToTop", "GoingToBottom"} =>
              /\ stepInputs[k].post = stepInputs[k].pre
              /\ stepInputs[k].fired = <<>>

\* --------------------------------------------------- claims on the counter
\* C26: for a math_counter with min < max the value lies within [min, max]
\* after every add and every subtract input
C26_ValueWithinLimits ==
    \A k \in CounterInputs :
        stepInputs[k].pre[stepInputs[k].ent].min < stepInputs[k].pre[stepInputs[k].ent].max =>
            /\ stepInputs[k].post[stepInputs[k].ent].value >= stepInputs[k].pre[stepInputs[k].ent].min
            /\ stepInputs[k].post[stepInputs[k].ent].value <= stepInputs[k].pre[stepInputs[k].ent].max

\* what updateValue does: a limit that is 0 is no limit; with min < max the
\* value is at most a max other than 0 and at least a min other than 0
C26_ValueWithinNonZeroLimits ==
    \A k \in CounterInputs :
        stepInputs[k].pre[stepInputs[k].ent].min < stepInputs[k].pre[stepInputs[k].ent].max =>
            /\ stepInputs[k].pre[stepInputs[k].ent].min # 0 =>
                  stepInputs[k].post[stepInputs[k].ent].value >= stepInputs[k].pre[stepInputs[k].ent].min
            /\ stepInputs[k].pre[stepInputs[k].ent].max # 0 =>
                  stepInputs[k].post[stepInputs[k].ent].value <= stepInputs[k].pre[stepInputs[k].ent].max

\* ------------------------------------------ claims on the material binding
\* C27: for a BSP model with an entity attached, once binding has completed
\* every surface is bound to a material instance that carries the entity's
\* material parameters, in whatever order the material requests resolve
\* after setEntity; setEntity itself runs before any request resolves, in
\* the turn of the constructor
C27_BoundSurfacesCarryEntityParams ==
    /\ (bindPc = "bound" /\ modelEntity # 0) =>
          \A s \in SurfaceIndices :
              /\ surfaceMaterial[s] # NullMaterial
              /\ surfaceMaterial[s].entityParams = modelEntity
    /\ \A k \in 1..Len(resolved) :
          resolved[k] # <<>> => resolved[k].entityParams = modelEntity

\* three names, resolved last request first, bound for a model with an entity
C27_Witness ==
    /\ bindPc = "bound"
    /\ modelEntity = 1
    /\ resolveOrder = <<3, 1, 2>>
    /\ \A s \in SurfaceIndices : surfaceMaterial[s].entityParams = 1
    /\ surfaceMaterial[3].instance = 1

\* ---------------------------------------------------------------------
\* BaseEntity.spawn, setParentEntity and updateModelMatrix
\* ---------------------------------------------------------------------
\* the deepest nesting of calls the engine's stack holds
MaxDepth == 4

ParentIndices == 1..3
\* targetname of entity i, and the parentname values of a level
ParentTargetNames == <<"a", "b", "c">>
ParentNames == {"", "a", "b", "c", "nobody"}

\* mat4 values: the local matrix of an entity, and null
LocalMatrix(e) == << <<"local", e>> >>
NullMatrix == << <<"null", 0>> >>

\* EntitySystem.findEntityByTargetName: the first entity of that name, 0 for null
findEntityByTargetName(cfg, targetName) ==
    IF \E i \in 1..Len(cfg) : cfg[i].targetname = targetName
    THEN CHOOSE i \in 1..Len(cfg) :
            /\ cfg[i].targetname = targetName
            /\ \A j \in 1..(i - 1) : cfg[j].targetname # targetName
    ELSE 0

\* BaseEntity.spawn of entity spawnNext, up to the call of updateModelMatrix
\* in setAbsOrigin. getAbsOrigin finds the old parent null. spawn returns at
\* once without a parentname, with the parent it has already, or with a null
\* parent
BaseEntity_spawn ==
    /\ ppc = "spawn"
    /\ spawnNext <= Len(parentCfg)
    /\ \E p \in {IF parentCfg[spawnNext].parentname = "" THEN 0
                 ELSE findEntityByTargetName(parentCfg, parentCfg[spawnNext].parentname)} :
          /\ parentEntity' = [parentEntity EXCEPT ![spawnNext] = p]
          /\ IF p = 0
             THEN /\ spawnNext' = spawnNext + 1
                  /\ ppc' = IF spawnNext = Len(parentCfg) THEN "done" ELSE "spawn"
                  /\ callStack' = <<>>
             ELSE /\ spawnNext' = spawnNext
                  /\ ppc' = "call"
                  /\ callStack' = <<p>>
    /\ UNCHANGED <<parentCfg, entityModelMatrix, callRet>>
    /\ KeepWorld
    /\ UNCHANGED peothers

\* updateModelMatrix of the entity on top of the stack, up to its return or
\* to its call of the parent's updateModelMatrix
updateModelMatrix_enter ==
    /\ ppc = "call"
    /\ \E e \in {callStack[Len(callStack)]} :
          IF ~parentCfg[e].hasModel
          THEN /\ callRet' = NullMatrix
               /\ callStack' = SubSeq(callStack, 1, Len(callStack) - 1)
               /\ ppc' = "return"
               /\ UNCHANGED entityModelMatrix
          ELSE IF parentEntity[e] = 0
          THEN /\ entityModelMatrix' = [entityModelMatrix EXCEPT ![e] = LocalMatrix(e)]
               /\ callRet' = LocalMatrix(e)
               /\ callStack' = SubSeq(callStack, 1, Len(callStack) - 1)
               /\ ppc' = "return"
          ELSE /\ Len(callStack) < MaxDepth
               /\ entityModelMatrix' = [entityModelMatrix EXCEPT ![e] = LocalMatrix(e)]
               /\ callStack' = Append(callStack, parentEntity[e])
               /\ UNCHANGED <<callRet, ppc>>
    /\ UNCHANGED <<parentCfg, parentEntity, spawnNext>>
    /\ KeepWorld
    /\ UNCHANGED peothers

\* the call of the parent's updateModelMatrix finds the stack full: the
\* engine throws RangeError, which nothing catches
updateModelMatrix_overflow ==
    /\ ppc = "call"
    /\ parentCfg[callStack[Len(callStack)]].hasModel
    /\ parentEntity[callStack[Len(callStack)]] # 0
    /\ Len(callStack) = MaxDepth
    /\ ppc' = "RangeError"
    /\ UNCHANGED <<parentCfg, parentEntity, entityModelMatrix, callStack, callRet, spawnNext>>
    /\ KeepWorld
    /\ UNCHANGED peothers

\* a call of updateModelMatrix has returned: to the caller's
\* updateModelMatrix, which multiplies, or to setAbsOrigin, where spawn ends
updateModelMatrix_return ==
    /\ ppc = "return"
    /\ IF callStack = <<>>
       THEN /\ spawnNext' = spawnNext + 1
            /\ ppc' = IF spawnNext = Len(parentCfg) THEN "done" ELSE "spawn"
            /\ UNCHANGED <<entityModelMatrix, callStack, callRet>>
       ELSE \E e \in {callStack[Len(callStack)]} :
            \E m \in {IF callRet # NullMatrix
                      THEN mat4_mul(callRet, entityModelMatrix[e])
                      ELSE entityModelMatrix[e]} :
               /\ entityModelMatrix' = [entityModelMatrix EXCEPT ![e] = m]
               /\ callRet' = m
               /\ callStack' = SubSeq(callStack, 1, Len(callStack) - 1)
               /\ UNCHANGED <<ppc, spawnNext>>
    /\ UNCHANGED <<parentCfg, parentEntity>>
    /\ KeepWorld
    /\ UNCHANGED peothers

NextParents ==
    \/ BaseEntity_spawn
    \/ updateModelMatrix_enter
    \/ updateModelMatrix_overflow
    \/ updateModelMatrix_return

\* createEntities has constructed the entities of a level and starts to
\* spawn them
InitParents ==
    /\ level = <<>> /\ InitSystem /\ NoRenderer /\ NoUnitsButParents
    /\ parentCfg \in [ParentIndices -> [targetname : {"a", "b", "c"},
                                        parentname : ParentNames,
                                        hasModel : BOOLEAN]]
    /\ \A i \in ParentIndices : parentCfg[i].targetname = ParentTargetNames[i]
    /\ parentEntity = [i \in ParentIndices |-> 0]
    /\ entityModelMatrix = [i \in ParentIndices |-> mat4_identity]
    /\ callStack = <<>>
    /\ callRet = NullMatrix
    /\ ppc = "spawn"
    /\ spawnNext = 1

\* spawn() is synchronous code: a call that can go on goes on
SpecParents ==
    /\ InitParents /\ [][NextParents]_vars
    /\ WF_vars(NextParents)

\* the entities that are on a cycle of parent links, every member of which
\* has a model
RECURSIVE ParentChain(_, _)
ParentChain(e, n) ==
    IF n = 0 \/ e = 0 THEN <<>>
    ELSE <<e>> \o ParentChain(parentEntity[e], n - 1)

OnModelCycle(e) ==
    /\ \E n \in 1..Len(parentCfg) : ParentChain(e, n + 1)[n + 1] = e
    /\ \A k \in 1..Len(ParentChain(e, Len(parentCfg))) :
          parentCfg[ParentChain(e, Len(parentCfg))[k]].hasModel

\* C28: parent resolution and the computation of the model matrix end for
\* every parentname configuration, an entity naming itself and two entities
\* naming each other included: every spawn() returns
C28_SpawnReturns == <>(ppc = "done")

\* the calls nest without end exactly on a cycle of parent links whose
\* members all have a model: the stack fills only with such entities, and
\* spawn() of any other level returns with every matrix the product of the
\* parents' local matrices and its own
C28_EndlessExactlyOnModelCycle ==
    /\ ppc = "RangeError" => \A k \in 1..Len(callStack) : OnModelCycle(callStack[k])
    /\ (ppc = "call" /\ Len(callStack) = MaxDepth) =>
          \A k \in 1..Len(callStack) : OnModelCycle(callStack[k])

\* ------------------------------------------- claims on the order of events
\* C29: a drain looks at the events in the order in which they were
\* enqueued, whatever their trigger times: the queue is always in enqueue
\* order, so the events that stay keep their order and an event that a
\* handler enqueues during the drain stands behind every event already
\* queued; and the event under the loop index was enqueued after every event
\* the drain has looked at, dispatched or not
C29_DrainInEnqueueOrder ==
    /\ \A j, k \in 1..Len(outputQueue) :
          j < k => outputQueue[j].id < outputQueue[k].id
    /\ (pc = "drain" /\ qi <= Len(outputQueue)) =>
          \A id \in drainLog.examined : id < outputQueue[qi].id
    /\ pc = "drain" =>
          \A k \in 1..(qi - 1) : k <= Len(outputQueue) =>
              /\ outputQueue[k].id \in drainLog.examined
              /\ evlog[outputQueue[k].id].ndisp = 0

\* one drain dispatched an event and, after it, an event enqueued later whose
\* trigger time is earlier; and it dispatched the relay's trigger and then
\* the event that the relay's handler enqueued in this drain
C29_Witness ==
    /\ pc = "drain"
    /\ \E a, b \in drainLog.examined :
          /\ a < b
          /\ evlog[a].ndisp = 1 /\ evlog[b].ndisp = 1
          /\ evlog[a].dispTime = currentTime /\ evlog[b].dispTime = currentTime
          /\ evlog[a].triggerTime > evlog[b].triggerTime
    /\ \E r, c \in drainLog.examined :
          /\ r < c
          /\ evlog[r].action.inputName = "trigger" /\ evlog[r].ndisp = 1
          /\ evlog[c].action = EntityOutputAction("counter", "add", "1", 0)
          /\ evlog[c].ndisp = 1
          /\ evlog[c].t = evlog[r].dispTime

\* ---------------------------------------------------------------------
\* an output action with a number of times to fire
\* ---------------------------------------------------------------------
\* parseEntityOutputAction of "lamp,turnon,,0,n"
TimedAction(n) == [EntityOutputAction("lamp", "turnon", "", 0) EXCEPT !.timesToFire = n]

\* a trigger_multiple whose OnTrigger action is to fire n times (-1: always)
LevelTimes(n) ==
    << [BSPEntity("trigger_multiple", "trig") EXCEPT
          !.model = TRUE, !.volume = {1},
          !.outputs = ("ontrigger" :> << TimedAction(n) >>) @@ NoOutputs] >>

LevelsTimes == {LevelTimes(-1), LevelTimes(1), LevelTimes(2)}

InitTimes == level \in LevelsTimes /\ InitSystem /\ NoRenderer /\ NoUnits
SpecTimes == InitTimes /\ [][Next]_vars

\* the events that were enqueued for the same action as event id
EventsOfAction(id) == {j \in 1..Len(evlog) : evlog[j].action = evlog[id].action}

\* C30: an output action with timesToFire N > 0 is enqueued, and so
\* dispatched, at most N times over the lifetime of the entity system,
\* however often its output is fired
C30_AtMostTimesToFire ==
    \A id \in 1..Len(evlog) :
        evlog[id].action.timesToFire > 0 =>
            Cardinality(EventsOfAction(id)) <= evlog[id].action.timesToFire

\* what EntityOutput.fire does: every firing of the output enqueues every
\* action of it, whatever its timesToFire
C30_EveryFiringEnqueues ==
    \A k \in 1..Len(stepFires) :
        Len(stepFires[k].queueAfter) = Len(stepFires[k].queueBefore) + Len(stepFires[k].actions)

====
